---- MODULE Spec2Model ----
(***************************************************************************)
(* Airline booking service (airline_booking_server.py) over its PostgreSQL *)
(* schema (create_airlines_db.py).                                          *)
(*                                                                         *)
(* The database is modelled as its committed tables.  Every tool call runs *)
(* on a connection of its own; the statements of a call are separate steps *)
(* so that calls interleave as PostgreSQL's default READ COMMITTED level    *)
(* lets them: a SELECT reads the committed rows, an INSERT or UPDATE is     *)
(* held in the connection's transaction until commit, an UPDATE locks its   *)
(* row until the transaction ends and then applies to the row as committed. *)
(*                                                                         *)
(* Money is fixed point: prices in cents, multipliers in hundredths,        *)
(* discount percentages as whole percents (all the seeded ones are).        *)
(***************************************************************************)
EXTENDS Integers, Sequences, FiniteSets, TLC

\* ------------------------------------------------------------------ bounds

\* Tool calls started in one behaviour.
MaxCalls == 3
\* Largest available_seats of a seeded inventory row.
MaxSeats == 1

\* Largest base price, in cents, of the small prices the pricing function
\* is applied to.
MaxBase == 30

\* Largest price multiplier, in hundredths, of the small multipliers the
\* pricing function is applied to.
MaxMultiplier == 5

\* The longest passenger name, in characters, that the name splitting is
\* applied to.
MaxName == 4

\* Largest num_bookings the seed routine add_more_bookings is asked for.
MaxBookings == 2

\* ------------------------------------------------------- reference data

None == "none"

\* The connections that may be open at the same time.
Conns == {"c1", "c2"}

\* flights JOIN airlines: flight_id -> airline_code, corporate_discount_percent.
\* Flights 1 and 2 are the seeded AA100 and DL500; flight 3 is one of the
\* added international flights, on the route of flight 1.
flights ==
    [ f \in {1, 2, 3} |->
        IF f = 1 THEN [airline_code |-> "AA", corporate_discount_percent |-> 15]
        ELSE IF f = 2 THEN [airline_code |-> "DL", corporate_discount_percent |-> 18]
        ELSE [airline_code |-> "QF", corporate_discount_percent |-> 10] ]

\* airlines: airline_code -> country, is_preferred_vendor.
airlines ==
    [ a \in {"AA", "DL", "QF"} |->
        IF a = "QF" THEN [country |-> "Australia", is_preferred_vendor |-> FALSE]
                    ELSE [country |-> "USA", is_preferred_vendor |-> TRUE] ]

\* flights JOIN airports: the cities a flight leaves from and arrives at.
origin_city(f) == IF f = 2 THEN "Atlanta" ELSE "New York"

destination_city(f) == "Los Angeles"

\* baggage_allowance: (airline_code, cabin_class) of its rows; no row is seeded.
baggage_allowance == {}

\* The rows of flight_inventory, keyed by UNIQUE(flight_id, flight_date, cabin_class).
Slot(f, d, k) == [flight_id |-> f, flight_date |-> d, cabin_class |-> k]

SlotA == Slot(1, "2025-06-01", "economy")

SlotB == Slot(1, "2025-06-02", "business")

Slots == {SlotA, SlotB}

\* A row of flight 3, on the date and in the cabin of SlotA.
SlotC == Slot(3, "2025-06-01", "economy")

\* base_price (cents) and price_multiplier (hundredths) of an inventory row.
base_price(s) == IF s = SlotA THEN 50000 ELSE IF s = SlotC THEN 59000 ELSE 19999

price_multiplier(s) == IF s = SlotA THEN 120 ELSE IF s = SlotC THEN 100 ELSE 115

\* The (flight_id, travel_date, cabin_class) a caller may ask for: the two
\* rows, a flight without a row, and a flight (9) that does not exist.
Requests ==
    Slots \cup { Slot(2, "2025-06-01", "economy"),
                 Slot(9, "2025-06-01", "economy") }

\* E-mail addresses as callers type them, and SQL's LOWER().
Emails == {"ann@x.com", "bob@x.com", "Bob@X.com"}

LOWER(e) ==
    CASE e = "Bob@X.com" -> "bob@x.com"
      [] e = "New York" -> "new york"
      [] e = "Los Angeles" -> "los angeles"
      [] e = "Atlanta" -> "atlanta"
      [] e = "USA" -> "usa"
      [] e = "Australia" -> "australia"
      [] OTHER -> e

\* generate_booking_reference: the airline code, the clock's second and a
\* random suffix; the last two are one drawn stamp.
Stamps == {"20250601120000-100", "20250601120000-101"}

generate_booking_reference(airline_code, stamp) == airline_code \o "-" \o stamp

\* seat_number = f"{seat_row}{seat_letter}", drawn at random in the call
\* that draws the stamp: the seat that came with each drawn stamp.
seat_number(stamp) == IF stamp = "20250601120000-100" THEN "12A" ELSE "7C"

\* The references a caller may quote: those the bookable flights can get.
References == { generate_booking_reference(flights[s.flight_id].airline_code, t) :
                    s \in Slots, t \in Stamps }

\* ---------------------------------------------------------------- pricing

RECURSIVE PowMod(_, _, _)
\* b^e mod m
PowMod(b, e, m) == IF e = 0 THEN 1 % m ELSE (b * PowMod(b, e - 1, m)) % m

RECURSIVE Log2Up(_, _, _)
\* floor(log2(m / 200)) for m >= 200, counted up from k with p = 2^k
Log2Up(m, k, p) == IF 400 * p <= m THEN Log2Up(m, k + 1, 2 * p) ELSE k

RECURSIVE Log2Down(_, _, _)
\* floor(log2(m / 200)) for m < 200, counted down from -j with p = 2^j
Log2Down(m, j, p) == IF m * p >= 200 THEN 0 - j ELSE Log2Down(m, j + 1, 2 * p)

\* float(x) for x = m/200 dollars (m odd: x ends in 5 at the third decimal):
\* 0 when the double is x itself, -1 when it lies below x, 1 when above.
\* x / ulp = m * 2^(49-k) / 25 with 2^k <= x < 2^(k+1).
FloatSide(m) ==
    LET k == IF m >= 200 THEN Log2Up(m, 0, 1) ELSE Log2Down(m, 0, 1)
        rem == ((m % 25) * PowMod(2, 49 - k, 25)) % 25
    IN  IF m % 25 = 0 THEN 0 ELSE IF rem <= 12 THEN -1 ELSE 1

\* Faulty variant of round2: the digits after the cent are cut off.
round2Truncates(v) == v \div 10000

\* round(float(v), 2) in cents, v in millionths of a dollar: Python rounds
\* the double nearest to v, to even when that double is an exact half.
round2(v) ==
    LET q == v \div 10000
        r == v % 10000
    IN  IF r < 5000 THEN q
        ELSE IF r > 5000 THEN q + 1
        ELSE IF FloatSide(2 * q + 1) = -1 THEN q
        ELSE IF FloatSide(2 * q + 1) = 1 THEN q + 1
        ELSE IF q % 2 = 0 THEN q ELSE q + 1

calculate_flight_price(base, multiplier, is_corporate, corporate_discount_percent) ==
    LET dynamic_price == base * multiplier * 100
        discount_amount ==
            IF is_corporate /\ corporate_discount_percent > 0
            THEN base * multiplier * corporate_discount_percent
            ELSE 0
        final_price == dynamic_price - discount_amount
    IN  [ base_price |-> base,
          dynamic_price |-> round2(dynamic_price),
          corporate_discount_percent |->
              IF is_corporate THEN corporate_discount_percent ELSE 0,
          corporate_discount_amount |-> round2(discount_amount),
          final_price |-> round2(final_price) ]

\* ------------------------------------------------------------------ state

VARIABLES
    passengers,        \* table passengers: rows [passenger_id, email, is_corporate]
    passengers_seq,    \* last value drawn from the passenger_id SERIAL
    flight_inventory,  \* table flight_inventory: row -> available_seats
    flight_bookings,   \* table flight_bookings: rows, see BookingRow
    pc,                \* per connection: the statement the call is about to run
    call,              \* per connection: the tool called and its arguments
    local,             \* per connection: the call's local variables
    tx,                \* per connection: the writes of its open transaction
    result,            \* per connection: what the last call returned or raised
    open,              \* the connections get_db_connection has open
    calls,             \* tool calls started so far
    seats0,            \* available_seats of every row as seeded
    pre,               \* sequential callers: the tables when the call started
    booked             \* sequential callers: what the last call booked, if it did

vars == << passengers, passengers_seq, flight_inventory, flight_bookings,
           pc, call, local, tx, result, open, calls, seats0, pre, booked >>

tables == << passengers, flight_inventory, flight_bookings >>

\* The errors the tools raise.
FlightNotFound == "Flight not found"

NoInventory == "No inventory found for this flight and date"

NoSeats == "No seats available for this flight"

PassengerNotFound == "Passenger not found"

BookingNotFound == "Booking not found"

Unauthorized == "Unauthorized: Booking does not belong to this passenger"

AlreadyCancelled == "Booking is already cancelled"

DatabaseError == "psycopg2.Error"

Ok == "success"

Errors == { FlightNotFound, NoInventory, NoSeats, PassengerNotFound,
            BookingNotFound, Unauthorized, AlreadyCancelled, DatabaseError }

NoCall ==
    [ flight_id |-> 0, cabin_class |-> None, is_corporate |-> FALSE, tool |-> None,
      travel_date |-> None, passenger_email |-> None, booking_reference |-> None ]

NoLocal ==
    [ flight_id |-> 0, flight_date |-> None, cabin_class |-> None,
      passenger_id |-> 0, available_seats |-> 0, booking_ref |-> None,
      seat_number |-> None ]

NoTx ==
    [ ins_passengers |-> {}, ins_bookings |-> {}, upd_bookings |-> {},
      upd_inventory |-> {} ]

\* No booking made by the call before: no reference, and no inventory then.
NotBooked == [ flight_inventory |-> << >>, booking_reference |-> None ]

\* The row create_flight_booking inserts into flight_bookings.
BookingRow(ref, pid, f, d, k, seat, price, discount, status) ==
    [ booking_reference |-> ref, passenger_id |-> pid, flight_id |-> f,
      flight_date |-> d, cabin_class |-> k, seat_number |-> seat,
      ticket_price |-> price, corporate_discount |-> discount,
      booking_status |-> status ]

\* The inventory row a call's or a booking's (flight, date, cabin) names.
SlotOf(r) == Slot(r.flight_id, r.flight_date, r.cabin_class)

CallSlot(c) == Slot(call[c].flight_id, call[c].travel_date, call[c].cabin_class)

\* The seeded database: one registered passenger, no bookings, every
\* inventory row with some number of seats (populate_flight_inventory).
Init ==
    /\ passengers = { [passenger_id |-> 1, email |-> "ann@x.com", is_corporate |-> TRUE] }
    /\ passengers_seq = 1
    /\ flight_inventory \in [Slots -> 0..MaxSeats]
    /\ flight_bookings = {}
    /\ pc = [c \in Conns |-> "idle"]
    /\ call = [c \in Conns |-> NoCall]
    /\ local = [c \in Conns |-> NoLocal]
    /\ tx = [c \in Conns |-> NoTx]
    /\ result = [c \in Conns |-> None]
    /\ open = {}
    /\ calls = 0
    /\ seats0 = flight_inventory
    /\ pre = [ passengers |-> passengers, flight_inventory |-> flight_inventory,
               flight_bookings |-> flight_bookings ]
    /\ booked = NotBooked

\* ------------------------------------------------- connections, transactions

\* A snapshot of the committed tables.
Tables ==
    [ passengers |-> passengers, flight_inventory |-> flight_inventory,
      flight_bookings |-> flight_bookings ]

\* An outcome reaches its caller before any connection does anything else.
NoneReturning == \A o \in Conns : pc[o] /= "return"

\* The call on c is about to run statement l.
At(c, l) == pc[c] = l /\ NoneReturning

\* with get_db_connection() as conn: a tool is called and connects.
Connect(c, args, first) ==
    /\ At(c, "idle")
    /\ calls < MaxCalls
    /\ calls' = calls + 1
    /\ call' = [call EXCEPT ![c] = args]
    /\ pc' = [pc EXCEPT ![c] = first]
    /\ open' = open \cup {c}
    /\ UNCHANGED << tables, passengers_seq, local, tx, result, seats0, pre, booked >>

\* Faulty variant of Close: the connection is left open.
CloseLeavesOpen(c, r) ==
    /\ pc' = [pc EXCEPT ![c] = "return"]
    /\ result' = [result EXCEPT ![c] = r]
    /\ open' = open

\* The call on c ends with outcome r; get_db_connection's finally closes c.
Close(c, r) ==
    /\ pc' = [pc EXCEPT ![c] = "return"]
    /\ result' = [result EXCEPT ![c] = r]
    /\ open' = open \ {c}

\* conn.commit(): the transaction's inserts and updates reach the tables.
Commit(c) ==
    /\ passengers' = passengers \cup tx[c].ins_passengers
    /\ flight_bookings' =
           { IF b.booking_reference \in tx[c].upd_bookings
             THEN [b EXCEPT !.booking_status = "cancelled"] ELSE b :
               b \in flight_bookings } \cup tx[c].ins_bookings
    /\ flight_inventory' =
           [ s \in DOMAIN flight_inventory |->
               IF \E u \in tx[c].upd_inventory : u[1] = s
               THEN flight_inventory[s] + (CHOOSE u \in tx[c].upd_inventory : u[1] = s)[2]
               ELSE flight_inventory[s] ]
    /\ tx' = [tx EXCEPT ![c] = NoTx]

\* Faulty variant of Rollback: the error path commits what was written.
RollbackCommits(c) == Commit(c)

\* conn.rollback(): the transaction's writes are dropped.
Rollback(c) ==
    /\ tx' = [tx EXCEPT ![c] = NoTx]
    /\ UNCHANGED tables

\* except Exception: conn.rollback(); raise
Raise(c, error) ==
    /\ Rollback(c)
    /\ local' = [local EXCEPT ![c] = NoLocal]
    /\ Close(c, error)

\* The caller has the call's outcome; the connection slot is free again.
Return(c) ==
    /\ pc[c] = "return"
    /\ pc' = [pc EXCEPT ![c] = "idle"]
    /\ call' = [call EXCEPT ![c] = NoCall]
    /\ local' = [local EXCEPT ![c] = NoLocal]
    /\ result' = [result EXCEPT ![c] = None]
    /\ UNCHANGED << tables, passengers_seq, tx, open, calls, seats0 >>

\* A caller who calls again only after the outcome (SeqSpec) notes the
\* tables as they are now, and what the call booked.
SeqReturn(c) ==
    /\ Return(c)
    /\ pre' = Tables
    /\ booked' =
           IF call[c].tool = "create_flight_booking" /\ result[c] = Ok
           THEN [ flight_inventory |-> pre.flight_inventory,
                  booking_reference |-> local[c].booking_ref ]
           ELSE NotBooked

\* Row locks: the rows other open transactions have updated.
InventoryLocked(c, s) ==
    \E o \in Conns \ {c} : \E u \in tx[o].upd_inventory : u[1] = s

BookingLocked(c, ref) ==
    \E o \in Conns \ {c} : ref \in tx[o].upd_bookings

\* Unique indexes: a key another open transaction has inserted makes the
\* insert wait for that transaction to end.
EmailPending(c, e) ==
    \E o \in Conns \ {c} : \E p \in tx[o].ins_passengers : p.email = e

ReferencePending(c, ref) ==
    \E o \in Conns \ {c} : \E b \in tx[o].ins_bookings : b.booking_reference = ref

\* ---------------------------------------------------- create_flight_booking

CreateArgs(slot, email, corporate) ==
    [ flight_id |-> slot.flight_id, cabin_class |-> slot.cabin_class,
      is_corporate |-> corporate, tool |-> "create_flight_booking",
      travel_date |-> slot.flight_date, passenger_email |-> email,
      booking_reference |-> None ]

\* Faulty variant of PassengersByEmail: the letter case must match.
PassengersByExactEmail(email) == { p \in passengers : p.email = email }

\* SELECT passenger_id FROM passengers WHERE LOWER(email) = LOWER(%s)
PassengersByEmail(email) == { p \in passengers : LOWER(p.email) = LOWER(email) }

\* Faulty variant of SoldOut: the last seat is not sold.
SoldOutAtLastSeat(available_seats) == available_seats <= 1

\* if inventory["available_seats"] < 1: raise
SoldOut(available_seats) == available_seats < 1

\* SET available_seats = available_seats - 1
SeatTaken == -1

\* Faulty variant of SeatRestored: a cancellation restores two seats.
SeatRestoredTwice == 1 + 1

\* SET available_seats = available_seats + 1
SeatRestored == 1

\* Faulty variant of InventoryRows: date and cabin are not compared.
InventoryRowsOfFlight(f, d, k) ==
    { s \in DOMAIN flight_inventory : s.flight_id = f }

\* WHERE flight_id = %s AND flight_date = %s AND cabin_class = %s
InventoryRows(f, d, k) ==
    { s \in DOMAIN flight_inventory :
        s.flight_id = f /\ s.flight_date = d /\ s.cabin_class = k }

\* The call: create_flight_booking(flight_id, travel_date, ...).
CreateCall(c) ==
    \E slot \in Requests, email \in Emails, corporate \in BOOLEAN :
        Connect(c, CreateArgs(slot, email, corporate), "create_select_passenger")

\* The same call, as concurrent callers make it: for a seeded inventory
\* row, not corporate.
CreateCallForRow(c) ==
    \E slot \in Slots, email \in Emails :
        Connect(c, CreateArgs(slot, email, FALSE), "create_select_passenger")

\* Get or create passenger: the lookup.
CreateSelectPassenger(c) ==
    /\ At(c, "create_select_passenger")
    /\ IF PassengersByEmail(call[c].passenger_email) /= {}
       THEN \E p \in PassengersByEmail(call[c].passenger_email) :
              /\ local' = [local EXCEPT ![c].passenger_id = p.passenger_id]
              /\ pc' = [pc EXCEPT ![c] = "create_select_flight"]
       ELSE /\ pc' = [pc EXCEPT ![c] = "create_insert_passenger"]
            /\ UNCHANGED local
    /\ UNCHANGED << tables, passengers_seq, call, tx, result, open, calls, seats0, pre, booked >>

\* INSERT INTO passengers ... RETURNING passenger_id.  email is UNIQUE (as
\* written, not lowered): a committed row with it fails the insert.
CreateInsertPassenger(c) ==
    /\ At(c, "create_insert_passenger")
    /\ ~EmailPending(c, call[c].passenger_email)
    /\ passengers_seq' = passengers_seq + 1
    /\ IF \E p \in passengers : p.email = call[c].passenger_email
       THEN Raise(c, DatabaseError)
       ELSE /\ tx' = [tx EXCEPT ![c].ins_passengers =
                         @ \cup { [ passenger_id |-> passengers_seq + 1,
                                    email |-> call[c].passenger_email,
                                    is_corporate |-> call[c].is_corporate ] }]
            /\ local' = [local EXCEPT ![c].passenger_id = passengers_seq + 1]
            /\ pc' = [pc EXCEPT ![c] = "create_select_flight"]
            /\ UNCHANGED << tables, result, open >>
    /\ UNCHANGED << call, calls, seats0, pre, booked >>

\* Get flight and airline info.
CreateSelectFlight(c) ==
    /\ At(c, "create_select_flight")
    /\ IF call[c].flight_id \in DOMAIN flights
       THEN /\ pc' = [pc EXCEPT ![c] = "create_select_inventory"]
            /\ UNCHANGED << tables, local, tx, result, open >>
       ELSE Raise(c, FlightNotFound)
    /\ UNCHANGED << passengers_seq, call, calls, seats0, pre, booked >>

\* Check availability and get pricing.
CreateSelectInventory(c) ==
    /\ At(c, "create_select_inventory")
    /\ LET rows == InventoryRows(call[c].flight_id, call[c].travel_date,
                                 call[c].cabin_class)
       IN  IF rows = {}
           THEN Raise(c, NoInventory)
           ELSE \E s \in rows :
                  IF SoldOut(flight_inventory[s])
                  THEN Raise(c, NoSeats)
                  ELSE /\ local' = [local EXCEPT ![c].available_seats = flight_inventory[s]]
                       /\ pc' = [pc EXCEPT ![c] = "create_insert_booking"]
                       /\ UNCHANGED << tables, tx, result, open >>
    /\ UNCHANGED << passengers_seq, call, calls, seats0, pre, booked >>

\* The pricing of the call's inventory row for the call's corporate flag.
CreatePricing(c) ==
    calculate_flight_price(base_price(CallSlot(c)), price_multiplier(CallSlot(c)),
                           call[c].is_corporate,
                           flights[call[c].flight_id].corporate_discount_percent)

\* Faulty variant of CreateBookingRow: the price before the discount.
CreateBookingRowUndiscounted(c, ref, seat) ==
    BookingRow(ref, local[c].passenger_id, call[c].flight_id, call[c].travel_date,
               call[c].cabin_class, seat, CreatePricing(c).dynamic_price,
               CreatePricing(c).corporate_discount_amount, "confirmed")

\* Faulty variant of CreateBookingRow: the booking starts as pending.
CreateBookingRowPending(c, ref, seat) ==
    BookingRow(ref, local[c].passenger_id, call[c].flight_id, call[c].travel_date,
               call[c].cabin_class, seat, CreatePricing(c).final_price,
               CreatePricing(c).corporate_discount_amount, "pending")

\* The booking create_flight_booking inserts under reference ref.
CreateBookingRow(c, ref, seat) ==
    BookingRow(ref, local[c].passenger_id, call[c].flight_id, call[c].travel_date,
               call[c].cabin_class, seat, CreatePricing(c).final_price,
               CreatePricing(c).corporate_discount_amount, "confirmed")

\* Faulty variant of ReferenceTaken: references are not compared.
ReferenceNeverTaken(ref) == ref /= ref

\* booking_reference TEXT UNIQUE: a committed row has the reference.
ReferenceTaken(ref) == \E b \in flight_bookings : b.booking_reference = ref

\* Calculate pricing, generate the reference, INSERT INTO flight_bookings.
\* booking_reference is UNIQUE: a committed row with it fails the insert.
CreateInsertBooking(c) ==
    /\ At(c, "create_insert_booking")
    /\ \E stamp \in Stamps :
         LET ref == generate_booking_reference(flights[call[c].flight_id].airline_code,
                                               stamp)
         IN  /\ ~ReferencePending(c, ref)
             /\ IF ReferenceTaken(ref)
                THEN Raise(c, DatabaseError)
                ELSE /\ tx' = [tx EXCEPT ![c].ins_bookings =
                                  @ \cup { CreateBookingRow(c, ref, seat_number(stamp)) }]
                     /\ local' = [local EXCEPT ![c].booking_ref = ref,
                                                ![c].seat_number = seat_number(stamp)]
                     /\ pc' = [pc EXCEPT ![c] = "create_update_inventory"]
                     /\ UNCHANGED << tables, result, open >>
    /\ UNCHANGED << passengers_seq, call, calls, seats0, pre, booked >>

\* Update inventory: UPDATE flight_inventory SET available_seats =
\* available_seats - 1 WHERE the row is the call's.  It waits for the row's
\* lock and then applies to the row as then committed.
CreateUpdateInventory(c) ==
    /\ At(c, "create_update_inventory")
    /\ \A s \in InventoryRows(call[c].flight_id, call[c].travel_date,
                              call[c].cabin_class) : ~InventoryLocked(c, s)
    /\ tx' = [tx EXCEPT ![c].upd_inventory =
                 @ \cup { <<s, SeatTaken>> :
                            s \in InventoryRows(call[c].flight_id, call[c].travel_date,
                                                call[c].cabin_class) }]
    /\ pc' = [pc EXCEPT ![c] = "create_commit"]
    /\ UNCHANGED << tables, passengers_seq, call, local, result, open, calls, seats0, pre, booked >>

\* conn.commit()
CreateCommit(c) ==
    /\ At(c, "create_commit")
    /\ Commit(c)
    /\ pc' = [pc EXCEPT ![c] = "create_select_route"]
    /\ UNCHANGED << passengers_seq, call, local, result, open, calls, seats0, pre, booked >>

\* Get route details for response, then return the confirmation.
CreateSelectRoute(c) ==
    /\ At(c, "create_select_route")
    /\ Close(c, Ok)
    /\ UNCHANGED << tables, passengers_seq, call, local, tx, calls, seats0, pre, booked >>

\* The route query raises after the commit (the connection is lost, or the
\* flight has no airport and route is None): rollback, which undoes
\* nothing, and raise.
CreateSelectRouteFails(c) ==
    /\ At(c, "create_select_route")
    /\ Raise(c, DatabaseError)
    /\ UNCHANGED << passengers_seq, call, calls, seats0, pre, booked >>

\* ---------------------------------------------------- cancel_flight_booking

CancelArgs(ref, email) ==
    [ flight_id |-> 0, cabin_class |-> None, is_corporate |-> FALSE,
      tool |-> "cancel_flight_booking", travel_date |-> None,
      passenger_email |-> email, booking_reference |-> ref ]

\* SELECT ... FROM flight_bookings WHERE booking_reference = %s
BookingsByReference(ref) == { b \in flight_bookings : b.booking_reference = ref }

\* Faulty variant of NotOwner: the owner is not compared with the caller.
NotOwnerUnchecked(booking, passenger_id) == booking.passenger_id /= booking.passenger_id

\* Faulty variant of NotOwner: the status is looked at before the owner.
NotOwnerUnlessCancelled(booking, passenger_id) ==
    booking.passenger_id /= passenger_id /\ booking.booking_status /= "cancelled"

\* if booking["passenger_id"] != passenger_id: raise
NotOwner(booking, passenger_id) == booking.passenger_id /= passenger_id

\* Faulty variant of IsCancelled: the status is compared with a misspelt word.
IsCancelledUnchecked(booking) == booking.booking_status = "canceled"

\* Faulty variant of IsCancelled: every booking but a confirmed one is refused.
IsNotConfirmed(booking) == booking.booking_status /= "confirmed"

\* if booking["booking_status"] == "cancelled": raise
IsCancelled(booking) == booking.booking_status = "cancelled"

\* The call: cancel_flight_booking(booking_reference, passenger_email).
CancelCall(c) ==
    \E ref \in References, email \in Emails :
        Connect(c, CancelArgs(ref, email), "cancel_select_passenger")

\* Get passenger.
CancelSelectPassenger(c) ==
    /\ At(c, "cancel_select_passenger")
    /\ IF PassengersByEmail(call[c].passenger_email) = {}
       THEN Raise(c, PassengerNotFound)
       ELSE \E p \in PassengersByEmail(call[c].passenger_email) :
              /\ local' = [local EXCEPT ![c].passenger_id = p.passenger_id]
              /\ pc' = [pc EXCEPT ![c] = "cancel_select_booking"]
              /\ UNCHANGED << tables, tx, result, open >>
    /\ UNCHANGED << passengers_seq, call, calls, seats0, pre, booked >>

\* Get booking, check its owner and its status.
CancelSelectBooking(c) ==
    /\ At(c, "cancel_select_booking")
    /\ IF BookingsByReference(call[c].booking_reference) = {}
       THEN Raise(c, BookingNotFound)
       ELSE \E booking \in BookingsByReference(call[c].booking_reference) :
              IF NotOwner(booking, local[c].passenger_id)
              THEN Raise(c, Unauthorized)
              ELSE IF IsCancelled(booking)
              THEN Raise(c, AlreadyCancelled)
              ELSE /\ local' = [local EXCEPT ![c].flight_id = booking.flight_id,
                                             ![c].flight_date = booking.flight_date,
                                             ![c].cabin_class = booking.cabin_class]
                   /\ pc' = [pc EXCEPT ![c] = "cancel_update_booking"]
                   /\ UNCHANGED << tables, tx, result, open >>
    /\ UNCHANGED << passengers_seq, call, calls, seats0, pre, booked >>

\* Update booking status: UPDATE flight_bookings SET booking_status =
\* 'cancelled' WHERE booking_reference = %s.  It waits for the row's lock
\* and then applies to the row as then committed, whatever its status.
CancelUpdateBooking(c) ==
    /\ At(c, "cancel_update_booking")
    /\ ~BookingLocked(c, call[c].booking_reference)
    /\ tx' = [tx EXCEPT ![c].upd_bookings = @ \cup {call[c].booking_reference}]
    /\ pc' = [pc EXCEPT ![c] = "cancel_update_inventory"]
    /\ UNCHANGED << tables, passengers_seq, call, local, result, open, calls, seats0, pre, booked >>

\* Restore seat inventory: UPDATE flight_inventory SET available_seats =
\* available_seats + 1 WHERE the row is the booking's.
CancelUpdateInventory(c) ==
    /\ At(c, "cancel_update_inventory")
    /\ \A s \in InventoryRows(local[c].flight_id, local[c].flight_date,
                              local[c].cabin_class) : ~InventoryLocked(c, s)
    /\ tx' = [tx EXCEPT ![c].upd_inventory =
                 @ \cup { <<s, SeatRestored>> :
                            s \in InventoryRows(local[c].flight_id, local[c].flight_date,
                                                local[c].cabin_class) }]
    /\ pc' = [pc EXCEPT ![c] = "cancel_commit"]
    /\ UNCHANGED << tables, passengers_seq, call, local, result, open, calls, seats0, pre, booked >>

\* conn.commit(), then return the confirmation.
CancelCommit(c) ==
    /\ At(c, "cancel_commit")
    /\ Commit(c)
    /\ Close(c, Ok)
    /\ UNCHANGED << passengers_seq, call, local, calls, seats0, pre, booked >>

\* ------------------------------------------------------------ the service

\* The statements of a write transaction, up to and including its commit.
InTransaction ==
    { "create_select_passenger", "create_insert_passenger", "create_select_flight",
      "create_select_inventory", "create_insert_booking", "create_update_inventory",
      "create_commit",
      "cancel_select_passenger", "cancel_select_booking", "cancel_update_booking",
      "cancel_update_inventory", "cancel_commit" }

\* A statement raises psycopg2.Error (the server is gone, the statement is
\* refused): except Exception: conn.rollback(); raise.
StatementFails(c) ==
    /\ \E l \in InTransaction : At(c, l)
    /\ Raise(c, DatabaseError)
    /\ UNCHANGED << passengers_seq, call, calls, seats0, pre, booked >>

\* A tool is called.
Call(c) == CreateCall(c) \/ CancelCall(c)

\* A tool is called while other calls may be running.
ConcurrentCall(c) == CreateCallForRow(c) \/ CancelCall(c)

\* The running call runs its next statement.
Step(c) ==
    \/ CreateSelectPassenger(c)
    \/ CreateInsertPassenger(c)
    \/ CreateSelectFlight(c)
    \/ CreateSelectInventory(c)
    \/ CreateInsertBooking(c)
    \/ CreateUpdateInventory(c)
    \/ CreateCommit(c)
    \/ CreateSelectRoute(c)
    \/ CreateSelectRouteFails(c)
    \/ CancelSelectPassenger(c)
    \/ CancelSelectBooking(c)
    \/ CancelUpdateBooking(c)
    \/ CancelUpdateInventory(c)
    \/ CancelCommit(c)
    \/ StatementFails(c)

\* The outcome reaches the caller.
Returns(c) == Return(c) /\ UNCHANGED << pre, booked >>

\* Calls arrive at any time, each on its own connection.
Next == \E c \in Conns : ConcurrentCall(c) \/ Step(c) \/ Returns(c)

Spec == Init /\ [][Next]_vars

\* Calls arrive one after the other: a call starts when no other is running
\* (on the one connection then needed).
SeqCall(c) ==
    /\ c = "c1"
    /\ \A o \in Conns : pc[o] = "idle"
    /\ Call(c)

SeqNext == \E c \in Conns : SeqCall(c) \/ Step(c) \/ SeqReturn(c)

SeqSpec == Init /\ [][SeqNext]_vars

\* ---------------------------------------------------------------------
\* Properties of the committed state under concurrent calls (Spec).

\* Bookings on a slot that still hold a seat.
Held(s) == { b \in flight_bookings : SlotOf(b) = s /\ b.booking_status /= "cancelled" }

\* The call on connection c is a booking that has committed.
Committed(c) == call[c].tool = "create_flight_booking" /\ pc[c] = "create_select_route"

\* C1: in every reachable state every inventory slot has
\* available_seats >= 0, under every interleaving of concurrent
\* create_flight_booking and cancel_flight_booking calls.
C1_SeatsNeverNegative ==
    \A s \in DOMAIN flight_inventory : flight_inventory[s] >= 0

\* C2: of two concurrent create_flight_booking calls on the same slot
\* that both read available_seats = 1, at most one commits a booking;
\* the other one ends with "No seats available for this flight".
C2_OneSeatOneBooking ==
    \A c \in Conns : \A o \in Conns \ {c} :
        ( /\ Committed(c)
          /\ call[o].tool = "create_flight_booking"
          /\ CallSlot(o) = CallSlot(c)
          /\ local[c].available_seats = 1
          /\ local[o].available_seats = 1 )
        => ~Committed(o)

\* C3: seat conservation; in every committed state, for every slot,
\* available_seats plus the number of bookings on the slot that are not
\* cancelled equals the initial available_seats of the slot.
C3_SeatConservation ==
    \A s \in DOMAIN flight_inventory :
        flight_inventory[s] + Cardinality(Held(s)) = seats0[s]

\* ---------------------------------------------------------------------
\* Properties of one call running alone (SeqSpec).  In a state where the
\* call on connection c has returned, pre holds the committed tables the
\* call started from and result[c] what the caller received.

Returned(c, tool) == pc[c] = "return" /\ call[c].tool = tool

\* The booking the returned cancel call referred to, as it was before.
CancelTarget(c) ==
    { b \in pre.flight_bookings : b.booking_reference = call[c].booking_reference }

\* The email of the call resolved, before the call, to passenger id.
ResolvesTo(c, id) ==
    \E p \in pre.passengers :
        LOWER(p.email) = LOWER(call[c].passenger_email) /\ p.passenger_id = id

\* The email of the call resolved, before the call, to some passenger.
Resolves(c) ==
    \E p \in pre.passengers : LOWER(p.email) = LOWER(call[c].passenger_email)

\* C4: a successful create_flight_booking on a slot followed by a
\* successful cancel_flight_booking of the returned reference leaves the
\* slot's available_seats at its value before the booking and every
\* other slot unchanged.
C4_BookThenCancelRestores ==
    \A c \in Conns :
        ( /\ Returned(c, "cancel_flight_booking")
          /\ result[c] = Ok
          /\ call[c].booking_reference = booked.booking_reference )
        => flight_inventory = booked.flight_inventory

C4_Witness ==
    \E c \in Conns :
        /\ Returned(c, "cancel_flight_booking")
        /\ result[c] = Ok
        /\ call[c].booking_reference = booked.booking_reference
        /\ \E s \in DOMAIN flight_inventory : flight_inventory[s] >= 1

\* C5: a create_flight_booking that fails with flight-not-found,
\* inventory-not-found or no-seats leaves passengers, bookings and
\* inventory exactly as they were, also when the call had inserted a
\* passenger row for an unknown email before failing.
C5_FailedBookingChangesNothing ==
    \A c \in Conns :
        ( /\ Returned(c, "create_flight_booking")
          /\ result[c] \in {FlightNotFound, NoInventory, NoSeats} )
        => Tables = pre

C5_Witness ==
    \E c \in Conns :
        /\ Returned(c, "create_flight_booking")
        /\ result[c] = NoSeats
        /\ ~Resolves(c)
        /\ passengers_seq > Cardinality(passengers)

\* C6: whenever create_flight_booking ends by raising an error to the
\* caller, neither a booking row nor an inventory decrement of that call
\* is in the committed state.
C6_NoCommitOnError ==
    \A c \in Conns :
        ( /\ Returned(c, "create_flight_booking")
          /\ result[c] \in Errors )
        => /\ flight_bookings = pre.flight_bookings
           /\ flight_inventory = pre.flight_inventory

\* C7: cancel_flight_booking with the owner's email on a booking that is
\* already cancelled never succeeds and changes nothing; the error it
\* reports is the already-cancelled one (a statement the database itself
\* fails surfaces as the database's error instead).
C7_CancelTwiceFails ==
    \A c \in Conns : \A b \in CancelTarget(c) :
        ( /\ Returned(c, "cancel_flight_booking")
          /\ b.booking_status = "cancelled"
          /\ ResolvesTo(c, b.passenger_id) )
        => /\ result[c] \in {AlreadyCancelled, DatabaseError}
           /\ Tables = pre

C7_Witness ==
    \E c \in Conns : \E b \in CancelTarget(c) :
        /\ Returned(c, "cancel_flight_booking")
        /\ b.booking_status = "cancelled"
        /\ ResolvesTo(c, b.passenger_id)
        /\ result[c] = AlreadyCancelled
        /\ flight_inventory[SlotOf(b)] = seats0[SlotOf(b)]

\* C8: cancel_flight_booking with an email that resolves to an existing
\* passenger other than the booking's passenger never succeeds, reports
\* Unauthorized (or the database's error when a statement fails) and
\* changes nothing; and whichever call has returned, a booking that was
\* not cancelled before it and is cancelled after it was cancelled by a
\* cancel call for that reference whose email resolves to the booking's
\* own passenger.
C8_OnlyOwnerCancels ==
    \A c \in Conns :
        pc[c] = "return" =>
          /\ \A b \in CancelTarget(c) :
               ( /\ call[c].tool = "cancel_flight_booking"
                 /\ Resolves(c)
                 /\ ~ResolvesTo(c, b.passenger_id) )
               => /\ result[c] \in {Unauthorized, DatabaseError}
                  /\ Tables = pre
          /\ \A b \in pre.flight_bookings :
               ( /\ b.booking_status /= "cancelled"
                 /\ \E a \in flight_bookings :
                        /\ a.booking_reference = b.booking_reference
                        /\ a.booking_status = "cancelled" )
               => /\ call[c].tool = "cancel_flight_booking"
                  /\ call[c].booking_reference = b.booking_reference
                  /\ ResolvesTo(c, b.passenger_id)

C8_Witness ==
    \E c \in Conns : \E b \in CancelTarget(c) :
        /\ Returned(c, "cancel_flight_booking")
        /\ Resolves(c)
        /\ ~ResolvesTo(c, b.passenger_id)
        /\ b.booking_status = "confirmed"
        /\ result[c] = Unauthorized

\* C9: a successful create_flight_booking adds exactly one booking row,
\* confirmed, for the resolved passenger and the requested flight, date
\* and cabin, priced with the pricing function's final_price and
\* discount amount for the slot; it takes exactly one seat from exactly
\* that slot and changes no other slot and no earlier booking.
C9_BookingEffect ==
    \A c \in Conns :
        ( Returned(c, "create_flight_booking") /\ result[c] = Ok )
        => \E b \in flight_bookings :
             LET pricing == calculate_flight_price(
                                base_price(SlotOf(b)), price_multiplier(SlotOf(b)),
                                call[c].is_corporate,
                                flights[b.flight_id].corporate_discount_percent)
             IN  /\ b \notin pre.flight_bookings
                 /\ flight_bookings = pre.flight_bookings \cup {b}
                 /\ b.booking_status = "confirmed"
                 /\ \E p \in passengers :
                        /\ LOWER(p.email) = LOWER(call[c].passenger_email)
                        /\ p.passenger_id = b.passenger_id
                 /\ SlotOf(b) = CallSlot(c)
                 /\ b.ticket_price = pricing.final_price
                 /\ b.corporate_discount = pricing.corporate_discount_amount
                 /\ SlotOf(b) \in DOMAIN pre.flight_inventory
                 /\ flight_inventory =
                        [pre.flight_inventory EXCEPT ![SlotOf(b)] = @ - 1]

C9_Witness ==
    \E c \in Conns : \E b \in flight_bookings \ pre.flight_bookings :
        /\ Returned(c, "create_flight_booking")
        /\ result[c] = Ok
        /\ call[c].is_corporate
        /\ SlotOf(b) = SlotA
        /\ b.ticket_price = 51000
        /\ b.corporate_discount = 9000
        /\ pre.flight_bookings /= {}

\* C10: a successful cancel_flight_booking sets the status of exactly
\* the referenced booking to cancelled and adds exactly one seat to the
\* slot stored in that booking; every other booking, every other slot
\* and all passengers are unchanged.
C10_CancelEffect ==
    \A c \in Conns :
        ( Returned(c, "cancel_flight_booking") /\ result[c] = Ok )
        => \E b \in CancelTarget(c) :
             /\ b.booking_status /= "cancelled"
             /\ flight_bookings =
                    (pre.flight_bookings \ {b})
                        \cup { [b EXCEPT !.booking_status = "cancelled"] }
             /\ SlotOf(b) \in DOMAIN pre.flight_inventory
             /\ flight_inventory =
                    [pre.flight_inventory EXCEPT ![SlotOf(b)] = @ + 1]
             /\ passengers = pre.passengers

C10_Witness ==
    \E c \in Conns : \E b \in CancelTarget(c) :
        /\ Returned(c, "cancel_flight_booking")
        /\ result[c] = Ok
        /\ \E o \in pre.flight_bookings : o /= b /\ o \in flight_bookings
        /\ flight_inventory[SlotOf(b)] = pre.flight_inventory[SlotOf(b)] + 1

\* ---------------------------------------------------------------------
\* The pricing function on its own (PriceSpec): one application of
\* calculate_flight_price to arguments drawn from its domain.

\* base_price NUMERIC(10, 2), in cents: the small ones and seeded ones.
BasePrices == (0..MaxBase) \cup {19999, 50000, 59000}

\* price_multiplier NUMERIC(4, 2), in hundredths, above zero.
Multipliers == (1..MaxMultiplier) \cup {100, 115, 120}

\* corporate_discount_percent, whole percents.
Percents == 0..100

PriceArgs(base, multiplier, corporate, percent) ==
    [ tool |-> "calculate_flight_price", base_price |-> base,
      price_multiplier |-> multiplier, is_corporate |-> corporate,
      corporate_discount_percent |-> percent ]

PriceInit ==
    /\ passengers = {}
    /\ passengers_seq = 0
    /\ flight_inventory = [s \in Slots |-> 0]
    /\ flight_bookings = {}
    /\ pc = [c \in Conns |-> IF c = "c1" THEN "calculate_flight_price" ELSE "idle"]
    /\ \E base \in BasePrices, multiplier \in Multipliers,
          corporate \in BOOLEAN, percent \in Percents :
         call = [c \in Conns |-> IF c = "c1"
                                 THEN PriceArgs(base, multiplier, corporate, percent)
                                 ELSE NoCall]
    /\ local = [c \in Conns |-> NoLocal]
    /\ tx = [c \in Conns |-> NoTx]
    /\ result = [c \in Conns |-> None]
    /\ open = {}
    /\ calls = 0
    /\ seats0 = flight_inventory
    /\ pre = Tables
    /\ booked = NotBooked

\* pricing = calculate_flight_price(...)
Price(c) ==
    /\ pc[c] = "calculate_flight_price"
    /\ local' = [local EXCEPT ![c] =
                    calculate_flight_price(call[c].base_price, call[c].price_multiplier,
                                           call[c].is_corporate,
                                           call[c].corporate_discount_percent)]
    /\ result' = [result EXCEPT ![c] = Ok]
    /\ pc' = [pc EXCEPT ![c] = "return"]
    /\ UNCHANGED << tables, passengers_seq, call, tx, open, calls, seats0, pre, booked >>

PriceNext == \E c \in Conns : Price(c)

PriceSpec == PriceInit /\ [][PriceNext]_vars

\* cents is an amount v, given in millionths of a dollar, rounded to the
\* nearest cent.
Nearest(cents, v) == cents * 10000 - v <= 5000 /\ v - cents * 10000 <= 5000

\* C11: calculate_flight_price reports, each rounded to the cent,
\* dynamic_price = base_price * multiplier, the discount amount
\* dynamic_price * discount / 100 for a corporate call and 0 otherwise,
\* and final_price = base_price * multiplier less that discount amount;
\* final_price <= dynamic_price; and 500.00 at 1.2 with a corporate 15%
\* gives 600.00, 90.00 and 510.00.
C11_PricingFunction ==
    \A c \in Conns :
        ( pc[c] = "return" /\ call[c].tool = "calculate_flight_price" )
        => LET product == call[c].base_price * call[c].price_multiplier * 100
               discount == IF call[c].is_corporate
                           THEN call[c].base_price * call[c].price_multiplier
                                    * call[c].corporate_discount_percent
                           ELSE 0
           IN  /\ Nearest(local[c].dynamic_price, product)
               /\ Nearest(local[c].corporate_discount_amount, discount)
               /\ Nearest(local[c].final_price, product - discount)
               /\ local[c].final_price <= local[c].dynamic_price
               /\ ( call[c] = PriceArgs(50000, 120, TRUE, 15)
                    => /\ local[c].dynamic_price = 60000
                       /\ local[c].corporate_discount_amount = 9000
                       /\ local[c].final_price = 51000 )

C11_Witness ==
    \E c \in Conns :
        /\ pc[c] = "return"
        /\ call[c] = PriceArgs(50000, 120, TRUE, 15)
        /\ local[c].final_price = 51000

\* ---------------------------------------------------------------------
\* Further properties of one call running alone (SeqSpec).

\* C12: create_flight_booking looks the passenger up by email ignoring
\* letter case.  When a passenger with that email exists the booking is
\* attached to that passenger and the passengers are left as they were;
\* otherwise a call that commits has created exactly one passenger row,
\* with the email given and a fresh id, to which the booking is attached
\* (a call that fails has created none).  No call of any tool removes or
\* alters a passenger row.
C12_GetOrCreatePassenger ==
    \A c \in Conns :
        pc[c] = "return" =>
          /\ pre.passengers \subseteq passengers
          /\ call[c].tool = "create_flight_booking" =>
               IF Resolves(c)
               THEN /\ passengers = pre.passengers
                    /\ \A b \in flight_bookings \ pre.flight_bookings :
                           ResolvesTo(c, b.passenger_id)
               ELSE /\ Cardinality(passengers \ pre.passengers) <= 1
                    /\ \A b \in flight_bookings \ pre.flight_bookings :
                         \E p \in passengers \ pre.passengers :
                           /\ p.email = call[c].passenger_email
                           /\ p.is_corporate = call[c].is_corporate
                           /\ p.passenger_id = b.passenger_id
                           /\ \A q \in pre.passengers :
                                  q.passenger_id /= p.passenger_id

C12_Witness ==
    \E c \in Conns : \E b \in flight_bookings \ pre.flight_bookings :
        /\ Returned(c, "create_flight_booking")
        /\ result[c] = Ok
        /\ \E p \in pre.passengers :
               /\ LOWER(p.email) = LOWER(call[c].passenger_email)
               /\ p.email /= call[c].passenger_email
               /\ p.passenger_id = b.passenger_id
        /\ passengers = pre.passengers

\* ---------------------------------------------------------------------
\* The read-only tools.  Each runs its SELECTs on a connection of its own
\* and returns (or raises) without a commit; what it returns is kept in
\* local[c] until the caller has it.

\* The day the call is made: PostgreSQL's CURRENT_DATE.
CURRENT_DATE == "2025-06-02"

\* Dates in calendar order.
DateRank(d) == IF d = "2025-06-01" THEN 1 ELSE 2

\* ORDER BY key: the sequences listing each row of the set once, in
\* non-decreasing order of key, a function of the rows (rows of equal key
\* in any order).
Ordered(rows, key) ==
    { q \in [1..Cardinality(rows) -> rows] :
        \A i \in DOMAIN q : \A j \in DOMAIN q :
            i < j => q[i] /= q[j] /\ key[q[i]] <= key[q[j]] }

\* Faulty variant of SelectOnly: the statement takes a seat from every row.
SelectTakesSeat(c) ==
    /\ flight_inventory' = [s \in DOMAIN flight_inventory |-> flight_inventory[s] - 1]
    /\ UNCHANGED << passengers, flight_bookings, tx >>

\* cursor.execute("SELECT ..."): the statements of a read-only tool write
\* no row and leave nothing to commit.
SelectOnly(c) == UNCHANGED << tables, tx >>

\* The outcome of a read-only tool: its payload, then the connection closes.
Reply(c, payload) ==
    /\ local' = [local EXCEPT ![c] = payload]
    /\ SelectOnly(c)
    /\ Close(c, Ok)
    /\ UNCHANGED << passengers_seq, call, calls, seats0, pre, booked >>

\* raise ValueError(error) in a read-only tool; the with block closes conn.
Fail(c, error) ==
    /\ local' = [local EXCEPT ![c] = NoLocal]
    /\ SelectOnly(c)
    /\ Close(c, error)
    /\ UNCHANGED << passengers_seq, call, calls, seats0, pre, booked >>

\* ------------------------------------------------------------ search_flights

SearchArgs(origin, destination, date, cabin, corporate, preferred, has_max, max) ==
    [ tool |-> "search_flights", origin_city |-> origin,
      destination_city |-> destination, travel_date |-> date,
      cabin_class |-> cabin, is_corporate |-> corporate,
      preferred_airlines_only |-> preferred,
      has_max_price |-> has_max, max_price |-> max ] @@ NoCall

\* max_price as callers pass it, in cents.
MaxPrices == {52000, 59000}

SearchFlightsCall(c) ==
    \E origin \in {"new york", "Atlanta"}, date \in {"2025-06-01", "2025-06-02"},
       corporate \in BOOLEAN, preferred \in BOOLEAN,
       has_max \in BOOLEAN, max \in MaxPrices :
        /\ has_max \/ max = 52000
        /\ Connect(c, SearchArgs(origin, "Los Angeles", date, "economy",
                                 corporate, preferred, has_max, max),
                   "search_flights")

\* Faulty variant of SearchRows: rows of any date are selected.
SearchRowsOfAnyDate(args) ==
    { s \in DOMAIN flight_inventory :
        /\ s.flight_id \in DOMAIN flights
        /\ LOWER(origin_city(s.flight_id)) = LOWER(args.origin_city)
        /\ LOWER(destination_city(s.flight_id)) = LOWER(args.destination_city)
        /\ s.cabin_class = args.cabin_class
        /\ flight_inventory[s] > 0 }

\* FROM flights f JOIN ... JOIN flight_inventory fi WHERE ...
SearchRows(args) ==
    { s \in DOMAIN flight_inventory :
        /\ s.flight_id \in DOMAIN flights
        /\ LOWER(origin_city(s.flight_id)) = LOWER(args.origin_city)
        /\ LOWER(destination_city(s.flight_id)) = LOWER(args.destination_city)
        /\ s.flight_date = args.travel_date
        /\ s.cabin_class = args.cabin_class
        /\ flight_inventory[s] > 0
        /\ args.preferred_airlines_only
              => airlines[flights[s.flight_id].airline_code].is_preferred_vendor }

\* ORDER BY fi.base_price * fi.price_multiplier ASC
SearchOrder(s) == base_price(s) * price_multiplier(s)

\* One entry of the returned flights list.
Offer(s, corporate) ==
    [ flight_id |-> s.flight_id, cabin_class |-> s.cabin_class,
      airline_code |-> flights[s.flight_id].airline_code,
      available_seats |-> flight_inventory[s],
      pricing |-> calculate_flight_price(
                      base_price(s), price_multiplier(s), corporate,
                      flights[s.flight_id].corporate_discount_percent) ]

\* Faulty variant of OverMaxPrice: the undiscounted price is compared.
OverMaxPriceUndiscounted(args, pricing) ==
    args.has_max_price /\ pricing.dynamic_price > args.max_price

\* if max_price is not None and pricing["final_price"] > max_price: continue
OverMaxPrice(args, pricing) == args.has_max_price /\ pricing.final_price > args.max_price

\* The loop over the fetched rows: price each, skip those over max_price.
SearchResults(q, args) ==
    LET Keep(o) == ~OverMaxPrice(args, o.pricing)
    IN  SelectSeq([i \in DOMAIN q |-> Offer(q[i], args.is_corporate)], Keep)

SearchFlights(c) ==
    /\ At(c, "search_flights")
    /\ \E q \in Ordered(SearchRows(call[c]),
                     [r \in SearchRows(call[c]) |-> SearchOrder(r)]) :
         Reply(c, [ results_count |-> Len(SearchResults(q, call[c])),
                    flights |-> SearchResults(q, call[c]) ])

\* ---------------------------------------------------- list_bookings_by_email

ListArgs(email, status, include_past) ==
    [ tool |-> "list_bookings_by_email", passenger_email |-> email,
      status |-> status, include_past |-> include_past ] @@ NoCall

ListBookingsCall(c) ==
    \E email \in Emails, status \in {None, "confirmed", "cancelled"},
       include_past \in BOOLEAN :
        Connect(c, ListArgs(email, status, include_past), "list_bookings_by_email")

\* Faulty variant of ListRows: the status filter is not applied.
ListRowsOfAnyStatus(passenger_id, args) ==
    { b \in flight_bookings :
        /\ b.passenger_id = passenger_id
        /\ b.flight_id \in DOMAIN flights
        /\ ~args.include_past => DateRank(b.flight_date) >= DateRank(CURRENT_DATE) }

\* FROM flight_bookings fb JOIN flights ... WHERE fb.passenger_id = %s ...
ListRows(passenger_id, args) ==
    { b \in flight_bookings :
        /\ b.passenger_id = passenger_id
        /\ b.flight_id \in DOMAIN flights
        /\ args.status /= None => b.booking_status = args.status
        /\ ~args.include_past => DateRank(b.flight_date) >= DateRank(CURRENT_DATE) }

\* ORDER BY fb.flight_date DESC
ListOrder(b) == 0 - DateRank(b.flight_date)

\* The columns the listing selects.
ListedBooking(b) ==
    [ booking_reference |-> b.booking_reference, booking_status |-> b.booking_status,
      flight_date |-> b.flight_date, cabin_class |-> b.cabin_class,
      seat_number |-> b.seat_number, ticket_price |-> b.ticket_price ]

ListBookingsByEmail(c) ==
    /\ At(c, "list_bookings_by_email")
    /\ IF PassengersByEmail(call[c].passenger_email) = {}
       THEN Reply(c, [ message |-> "No bookings found for this email address",
                       bookings_count |-> 0, bookings |-> << >> ])
       ELSE \E p \in PassengersByEmail(call[c].passenger_email) :
            \E q \in Ordered(ListRows(p.passenger_id, call[c]),
                     [r \in ListRows(p.passenger_id, call[c]) |-> ListOrder(r)]) :
              Reply(c, [ passenger_email |-> p.email,
                         is_corporate |-> p.is_corporate,
                         bookings_count |-> Len(q),
                         bookings |-> [i \in DOMAIN q |-> ListedBooking(q[i])] ])

\* -------------------------------------------------------- get_flight_details

SlotNotFound == "Flight not found for the specified date and cabin class"

BaggageNotFound == "Baggage allowance not found for this airline and cabin class"

DetailsArgs(f, date, corporate) ==
    [ tool |-> "get_flight_details", flight_id |-> f, travel_date |-> date,
      cabin_class |-> "economy", is_corporate |-> corporate ] @@ NoCall

GetFlightDetailsCall(c) ==
    \E f \in {1, 2, 9}, date \in {"2025-06-01", "2025-06-02"}, corporate \in BOOLEAN :
        Connect(c, DetailsArgs(f, date, corporate), "get_flight_details")

\* FROM flight_inventory WHERE flight_id = %s AND flight_date = %s
DetailsRows(args) ==
    { s \in DOMAIN flight_inventory :
        s.flight_id = args.flight_id /\ s.flight_date = args.travel_date }

\* ORDER BY CASE cabin_class WHEN 'economy' THEN 1 ... END
CabinRank(s) ==
    CASE s.cabin_class = "economy" -> 1
      [] s.cabin_class = "premium_economy" -> 2
      [] s.cabin_class = "business" -> 3
      [] OTHER -> 4

\* One entry of cabin_availability.
CabinAvailability(s, args) ==
    [ cabin_class |-> s.cabin_class, available_seats |-> flight_inventory[s],
      pricing |-> calculate_flight_price(
                      base_price(s), price_multiplier(s), args.is_corporate,
                      flights[s.flight_id].corporate_discount_percent) ]

GetFlightDetails(c) ==
    /\ At(c, "get_flight_details")
    /\ IF call[c].flight_id \notin DOMAIN flights
       THEN Fail(c, FlightNotFound)
       ELSE \E q \in Ordered(DetailsRows(call[c]),
                     [r \in DetailsRows(call[c]) |-> CabinRank(r)]) :
              Reply(c, [ flight_id |-> call[c].flight_id,
                         travel_date |-> call[c].travel_date,
                         cabin_availability |->
                             [i \in DOMAIN q |-> CabinAvailability(q[i], call[c])],
                         pricing_is_corporate |-> call[c].is_corporate ])

\* ------------------------------ check_seat_availability, calculate_flight_cost

SlotArgs(tool, slot, corporate) ==
    [ tool |-> tool, flight_id |-> slot.flight_id, travel_date |-> slot.flight_date,
      cabin_class |-> slot.cabin_class, is_corporate |-> corporate ] @@ NoCall

CheckSeatAvailabilityCall(c) ==
    \E slot \in Requests :
        Connect(c, SlotArgs("check_seat_availability", slot, FALSE),
                "check_seat_availability")

\* FROM flights f JOIN ... JOIN flight_inventory fi WHERE f.flight_id = %s
\*   AND fi.flight_date = %s AND fi.cabin_class = %s
SlotRows(args) ==
    { s \in DOMAIN flight_inventory :
        /\ s.flight_id \in DOMAIN flights
        /\ s = Slot(args.flight_id, args.travel_date, args.cabin_class) }

\* The price shown (current_price) is left out of the payload.
CheckSeatAvailability(c) ==
    /\ At(c, "check_seat_availability")
    /\ IF SlotRows(call[c]) = {}
       THEN Fail(c, SlotNotFound)
       ELSE \E s \in SlotRows(call[c]) :
              Reply(c, [ flight_id |-> call[c].flight_id,
                         travel_date |-> call[c].travel_date,
                         cabin_class |-> call[c].cabin_class,
                         available_seats |-> flight_inventory[s],
                         is_available |-> flight_inventory[s] > 0 ])

CalculateFlightCostCall(c) ==
    \E slot \in Requests, corporate \in BOOLEAN :
        Connect(c, SlotArgs("calculate_flight_cost", slot, corporate),
                "calculate_flight_cost")

CalculateFlightCost(c) ==
    /\ At(c, "calculate_flight_cost")
    /\ IF SlotRows(call[c]) = {}
       THEN Fail(c, SlotNotFound)
       ELSE \E s \in SlotRows(call[c]) :
              Reply(c, [ cost_breakdown |->
                             calculate_flight_price(
                                 base_price(s), price_multiplier(s), call[c].is_corporate,
                                 flights[s.flight_id].corporate_discount_percent),
                         is_corporate_booking |-> call[c].is_corporate ])

\* ------------------------------------------------------- get_booking_details

BookingArgs(ref) ==
    [ tool |-> "get_booking_details", booking_reference |-> ref ] @@ NoCall

GetBookingDetailsCall(c) ==
    \E ref \in References : Connect(c, BookingArgs(ref), "get_booking_details")

\* Faulty variant of BookingDetailRows: cancelled bookings are not found.
BookingDetailRowsNotCancelled(ref) ==
    { b \in flight_bookings :
        /\ b.booking_reference = ref
        /\ b.booking_status /= "cancelled"
        /\ b.flight_id \in DOMAIN flights
        /\ \E p \in passengers : p.passenger_id = b.passenger_id }

\* FROM flight_bookings fb JOIN passengers p ... JOIN flights f ...
\*   WHERE fb.booking_reference = %s
BookingDetailRows(ref) ==
    { b \in flight_bookings :
        /\ b.booking_reference = ref
        /\ b.flight_id \in DOMAIN flights
        /\ \E p \in passengers : p.passenger_id = b.passenger_id }

GetBookingDetails(c) ==
    /\ At(c, "get_booking_details")
    /\ IF BookingDetailRows(call[c].booking_reference) = {}
       THEN Fail(c, BookingNotFound)
       ELSE \E b \in BookingDetailRows(call[c].booking_reference) :
            \E p \in { r \in passengers : r.passenger_id = b.passenger_id } :
              Reply(c, [ email |-> p.email, is_corporate |-> p.is_corporate ] @@ b)

\* ----------------------------------------------------- get_baggage_allowance

BaggageArgs(airline_code, cabin) ==
    [ tool |-> "get_baggage_allowance", airline_code |-> airline_code,
      cabin_class |-> cabin ] @@ NoCall

GetBaggageAllowanceCall(c) ==
    \E airline_code \in {"AA", "ZZ"} :
        Connect(c, BaggageArgs(airline_code, "economy"), "get_baggage_allowance")

\* FROM baggage_allowance ba JOIN airlines al ...
\*   WHERE al.airline_code = %s AND ba.cabin_class = %s
BaggageRows(args) ==
    { r \in baggage_allowance :
        /\ r[1] \in DOMAIN airlines
        /\ r = << args.airline_code, args.cabin_class >> }

GetBaggageAllowance(c) ==
    /\ At(c, "get_baggage_allowance")
    /\ IF BaggageRows(call[c]) = {}
       THEN Fail(c, BaggageNotFound)
       ELSE \E r \in BaggageRows(call[c]) :
              Reply(c, [ airline_code |-> r[1], cabin_class |-> r[2] ])

\* --------------------------------- get_airlines, get_airports, get_route_options

\* airports: airport_code -> city, country.
airports ==
    [ a \in {"JFK", "ATL", "LAX"} |->
        [ city |-> IF a = "JFK" THEN "New York"
                   ELSE IF a = "ATL" THEN "Atlanta" ELSE "Los Angeles",
          country |-> "USA" ] ]

AirlinesArgs(country) == [ tool |-> "get_airlines", country |-> country ] @@ NoCall

GetAirlinesCall(c) ==
    \E country \in {None, "usa", "Australia"} :
        Connect(c, AirlinesArgs(country), "get_airlines")

\* if country: ... WHERE LOWER(country) = LOWER(%s)
AirlineRows(args) ==
    { a \in DOMAIN airlines :
        args.country /= None => LOWER(airlines[a].country) = LOWER(args.country) }

\* ORDER BY airline_name: American Airlines, Delta Air Lines, Qantas.
AirlineRank(a) == CASE a = "AA" -> 1 [] a = "DL" -> 2 [] OTHER -> 3

GetAirlines(c) ==
    /\ At(c, "get_airlines")
    /\ \E q \in Ordered(AirlineRows(call[c]),
                     [r \in AirlineRows(call[c]) |-> AirlineRank(r)]) :
         Reply(c, [ airlines_count |-> Len(q), airlines |-> q ])

AirportsArgs(city, country) ==
    [ tool |-> "get_airports", city |-> city, country |-> country ] @@ NoCall

GetAirportsCall(c) ==
    \E city \in {None, "atlanta"}, country \in {None, "USA"} :
        Connect(c, AirportsArgs(city, country), "get_airports")

\* if city: ... elif country: ... else: one row per city.
AirportRows(args) ==
    IF args.city /= None
    THEN { a \in DOMAIN airports : LOWER(airports[a].city) = LOWER(args.city) }
    ELSE IF args.country /= None
    THEN { a \in DOMAIN airports : LOWER(airports[a].country) = LOWER(args.country) }
    ELSE { airports[a].city : a \in DOMAIN airports }

\* ORDER BY airport_name / city, airport_name / city.
AirportRank(a) ==
    CASE a \in {"ATL", "Atlanta"} -> 1 [] a \in {"JFK", "New York"} -> 3 [] OTHER -> 2

GetAirports(c) ==
    /\ At(c, "get_airports")
    /\ \E q \in Ordered(AirportRows(call[c]),
                     [r \in AirportRows(call[c]) |-> AirportRank(r)]) :
         Reply(c, [ airports_count |-> Len(q), airports |-> q ])

RouteArgs(origin, destination) ==
    [ tool |-> "get_route_options", origin_city |-> origin,
      destination_city |-> destination ] @@ NoCall

GetRouteOptionsCall(c) ==
    \E origin \in {"New York", "los angeles"} :
        Connect(c, RouteArgs(origin, "Los Angeles"), "get_route_options")

\* FROM flights f JOIN airlines JOIN airports orig JOIN airports dest
\*   WHERE LOWER(orig.city) = LOWER(%s) AND LOWER(dest.city) = LOWER(%s)
RouteRows(args) ==
    { f \in DOMAIN flights :
        /\ LOWER(origin_city(f)) = LOWER(args.origin_city)
        /\ LOWER(destination_city(f)) = LOWER(args.destination_city) }

\* ORDER BY al.airline_name, f.departure_time
RouteRank(f) == AirlineRank(flights[f].airline_code)

GetRouteOptions(c) ==
    /\ At(c, "get_route_options")
    /\ \E q \in Ordered(RouteRows(call[c]),
                     [r \in RouteRows(call[c]) |-> RouteRank(r)]) :
         Reply(c, [ routes_count |-> Len(q), routes |-> q ])

\* ------------------------------------------------------- the read-only tools

ReadOnlyTools ==
    { "search_flights", "get_flight_details", "check_seat_availability",
      "get_booking_details", "list_bookings_by_email", "calculate_flight_cost",
      "get_airlines", "get_airports", "get_baggage_allowance", "get_route_options" }

\* A statement of a read-only tool fails with a database error: the
\* exception passes through get_db_connection's finally.
ReadFails(c) ==
    /\ \E l \in ReadOnlyTools : At(c, l)
    /\ Fail(c, DatabaseError)

\* A read-only tool is called.
ReadCall(c) ==
    /\ c = "c1"
    /\ \A o \in Conns : pc[o] = "idle"
    /\ \/ SearchFlightsCall(c)
       \/ GetFlightDetailsCall(c)
       \/ CheckSeatAvailabilityCall(c)
       \/ GetBookingDetailsCall(c)
       \/ ListBookingsCall(c)
       \/ CalculateFlightCostCall(c)
       \/ GetAirlinesCall(c)
       \/ GetAirportsCall(c)
       \/ GetBaggageAllowanceCall(c)
       \/ GetRouteOptionsCall(c)

\* The running read-only tool runs its query and answers.
ReadStep(c) ==
    \/ SearchFlights(c)
    \/ GetFlightDetails(c)
    \/ CheckSeatAvailability(c)
    \/ GetBookingDetails(c)
    \/ ListBookingsByEmail(c)
    \/ CalculateFlightCost(c)
    \/ GetAirlines(c)
    \/ GetAirports(c)
    \/ GetBaggageAllowance(c)
    \/ GetRouteOptions(c)
    \/ ReadFails(c)

\* A booking as a committed create_flight_booking (or, cancelled, a later
\* cancel_flight_booking) leaves it.
StoredBooking(stamp, p, s, status) ==
    LET pricing == calculate_flight_price(
                       base_price(s), price_multiplier(s), p.is_corporate,
                       flights[s.flight_id].corporate_discount_percent)
    IN  BookingRow(generate_booking_reference(flights[s.flight_id].airline_code, stamp),
                   p.passenger_id, s.flight_id, s.flight_date, s.cabin_class,
                   seat_number(stamp), pricing.final_price, pricing.corporate_discount_amount, status)

Ann == [passenger_id |-> 1, email |-> "ann@x.com", is_corporate |-> TRUE]

Bob == [passenger_id |-> 2, email |-> "Bob@X.com", is_corporate |-> FALSE]

\* The databases the read-only tools are run on: one or two passengers,
\* inventory rows of flights 1 and 3 (none of flight 2) with or without
\* seats, and up to two bookings.
ReadPassengers == { {Ann}, {Ann, Bob} }

ReadBookings(ps) ==
    LET ann1 == StoredBooking("20250601120000-100", Ann, SlotA, "confirmed")
        ann2 == StoredBooking("20250601120000-101", Ann, SlotB, "cancelled")
        ann3 == StoredBooking("20250601120000-101", Ann, SlotB, "confirmed")
        bob2 == StoredBooking("20250601120000-101", Bob, SlotB, "confirmed")
    IN  { {}, {ann1}, {ann1, ann2}, {ann1, ann3} }
          \cup (IF Bob \in ps THEN { {ann1, bob2}, {bob2} } ELSE {})

ReadInventories ==
    UNION { [rows -> 0..MaxSeats] : rows \in { Slots, Slots \cup {SlotC} } }

ReadInit ==
    /\ passengers \in ReadPassengers
    /\ passengers_seq = Cardinality(passengers)
    /\ flight_inventory \in ReadInventories
    /\ flight_bookings \in ReadBookings(passengers)
    /\ pc = [c \in Conns |-> "idle"]
    /\ call = [c \in Conns |-> NoCall]
    /\ local = [c \in Conns |-> NoLocal]
    /\ tx = [c \in Conns |-> NoTx]
    /\ result = [c \in Conns |-> None]
    /\ open = {}
    /\ calls = 0
    /\ seats0 = flight_inventory
    /\ pre = Tables
    /\ booked = NotBooked

ReadNext == \E c \in Conns : ReadCall(c) \/ ReadStep(c) \/ SeqReturn(c)

ReadSpec == ReadInit /\ [][ReadNext]_vars

\* ---------------------------------------------------------------------
\* Properties of the read-only tools (ReadSpec).  In a state where the call
\* on connection c has returned, local[c] is the payload the caller gets
\* and result[c] its outcome; pre holds the tables the call started from.

\* The passengers the e-mail of the returned call names (ignoring case).
Known(c) ==
    { p \in pre.passengers : LOWER(p.email) = LOWER(call[c].passenger_email) }

\* C13: list_bookings_by_email for an email that matches no passenger
\* returns a successful result with bookings_count = 0 and an empty
\* bookings list instead of failing; for a known email bookings_count
\* equals the number of returned bookings, all of which belong to that
\* passenger and match the status filter when one is given.
C13_ListBookingsByEmail ==
    \A c \in Conns :
        (Returned(c, "list_bookings_by_email") /\ result[c] /= DatabaseError) =>
            /\ result[c] = Ok
            /\ local[c].bookings_count = Len(local[c].bookings)
            /\ Known(c) = {} =>
                  local[c].bookings_count = 0 /\ local[c].bookings = << >>
            /\ Known(c) /= {} =>
                  \E p \in Known(c) :
                      /\ local[c].passenger_email = p.email
                      /\ \A i \in DOMAIN local[c].bookings :
                           /\ \E b \in pre.flight_bookings :
                                /\ b.booking_reference =
                                       local[c].bookings[i].booking_reference
                                /\ b.passenger_id = p.passenger_id
                           /\ call[c].status /= None =>
                                local[c].bookings[i].booking_status = call[c].status

\* A listing filtered by status that returned a booking of a passenger who
\* also has a booking of another status.
C13_Witness ==
    \E c \in Conns :
        /\ Returned(c, "list_bookings_by_email")
        /\ result[c] = Ok
        /\ call[c].status /= None
        /\ Known(c) /= {}
        /\ local[c].bookings_count = 1
        /\ \E p \in Known(c) : \E b \in pre.flight_bookings :
             b.passenger_id = p.passenger_id /\ b.booking_status /= call[c].status

\* The inventory rows, before the returned search, of the city pair, date
\* and cabin it asked for.
OnRoute(c) ==
    { s \in DOMAIN pre.flight_inventory :
        /\ s.flight_id \in DOMAIN flights
        /\ LOWER(origin_city(s.flight_id)) = LOWER(call[c].origin_city)
        /\ LOWER(destination_city(s.flight_id)) = LOWER(call[c].destination_city)
        /\ s.flight_date = call[c].travel_date
        /\ s.cabin_class = call[c].cabin_class }

\* C14: search_flights never fails because nothing matches; when no
\* inventory row matches the origin city, destination city, date and
\* cabin it returns a successful result with an empty flight list and
\* results_count = 0, and in every result results_count equals the
\* length of the flights list.
C14_SearchNothingMatches ==
    \A c \in Conns :
        (Returned(c, "search_flights") /\ result[c] /= DatabaseError) =>
            /\ result[c] = Ok
            /\ local[c].results_count = Len(local[c].flights)
            /\ OnRoute(c) = {} =>
                  local[c].flights = << >> /\ local[c].results_count = 0

\* A search from New York, where flights leave on another date, that no
\* row matched and that returned normally.
C14_Witness ==
    \E c \in Conns :
        /\ Returned(c, "search_flights")
        /\ result[c] = Ok
        /\ OnRoute(c) = {}
        /\ LOWER(call[c].origin_city) = "new york"
        /\ \E s \in DOMAIN pre.flight_inventory : pre.flight_inventory[s] > 0
        /\ local[c].results_count = 0

\* ---------------------------------------------------------------------
\* Connections (Spec, and the same under SeqSpec and ReadSpec).

\* C15: every tool invocation opens its own database connection and
\* closes it on every exit path (success, business-rule error, database
\* error): a call that is running holds its connection open, a call that
\* has ended does not, so when every call has completed no connection is
\* open.
C15_ConnectionsClosed ==
    /\ \A c \in Conns : c \in open <=> pc[c] \notin {"idle", "return"}
    /\ (\A c \in Conns : pc[c] \in {"idle", "return"}) => Cardinality(open) = 0

\* One call has ended in a business-rule error and another in a database
\* error or in success, and nothing is open.
C15_Witness ==
    /\ open = {}
    /\ calls >= 2
    /\ \E c \in Conns :
         pc[c] = "return" /\ result[c] \in Errors \ {DatabaseError}

\* ---------------------------------------------------------------------
\* Absence in the read-only lookups (ReadSpec).

NotFoundErrors == { FlightNotFound, SlotNotFound, BookingNotFound, BaggageNotFound }

\* What the returned lookup on c was asked about did not exist.
Absent(c) ==
    \/ /\ call[c].tool = "get_flight_details"
       /\ \/ call[c].flight_id \notin DOMAIN flights
          \/ ~\E s \in DOMAIN pre.flight_inventory :
                 s.flight_id = call[c].flight_id /\ s.flight_date = call[c].travel_date
    \/ /\ call[c].tool \in {"check_seat_availability", "calculate_flight_cost"}
       /\ \/ call[c].flight_id \notin DOMAIN flights
          \/ CallSlot(c) \notin DOMAIN pre.flight_inventory
    \/ /\ call[c].tool = "get_booking_details"
       /\ ~\E b \in pre.flight_bookings :
              b.booking_reference = call[c].booking_reference
    \/ /\ call[c].tool = "get_baggage_allowance"
       /\ << call[c].airline_code, call[c].cabin_class >> \notin baggage_allowance

\* C16: get_flight_details, check_seat_availability, calculate_flight_cost,
\* get_booking_details and get_baggage_allowance fail with a not-found
\* error whenever the flight, the inventory for the requested date (and
\* cabin), the booking or the allowance asked about does not exist; an
\* existing flight without inventory on the requested date included.
C16_AbsenceIsFailure ==
    \A c \in Conns :
        (pc[c] = "return" /\ Absent(c)) =>
            result[c] \in NotFoundErrors \cup {DatabaseError}

\* ---------------------------------------------------------------------
\* The offers of search_flights (ReadSpec).

\* The rows the returned search matched: city pair, date, cabin, a seat
\* left, and a preferred vendor when only those were asked for.
Matching(c) ==
    { s \in OnRoute(c) :
        /\ pre.flight_inventory[s] > 0
        /\ call[c].preferred_airlines_only
              => airlines[flights[s.flight_id].airline_code].is_preferred_vendor }

\* What a matching row costs the caller of the returned search.
FinalPrice(c, s) ==
    calculate_flight_price(base_price(s), price_multiplier(s), call[c].is_corporate,
                           flights[s.flight_id].corporate_discount_percent).final_price

\* The row an offer is about.
OfferSlot(c, o) == Slot(o.flight_id, call[c].travel_date, o.cabin_class)

\* C17: search_flights with a max_price returns exactly the matching slots
\* whose final price after corporate discount is <= max_price: no returned
\* offer has pricing.final_price > max_price and no matching slot with
\* final_price <= max_price is omitted, also when its undiscounted dynamic
\* price exceeds max_price.
C17_MaxPriceOnFinalPrice ==
    \A c \in Conns :
        ( /\ Returned(c, "search_flights")
          /\ result[c] = Ok
          /\ call[c].has_max_price ) =>
            /\ \A i \in DOMAIN local[c].flights :
                 local[c].flights[i].pricing.final_price <= call[c].max_price
            /\ { OfferSlot(c, local[c].flights[i]) : i \in DOMAIN local[c].flights }
                 = { s \in Matching(c) : FinalPrice(c, s) <= call[c].max_price }
            /\ \A i \in DOMAIN local[c].flights : \A j \in DOMAIN local[c].flights :
                 OfferSlot(c, local[c].flights[i]) = OfferSlot(c, local[c].flights[j])
                    => i = j

\* A corporate search with a max_price between the discounted and the
\* undiscounted price of an offer it returned, and below the discounted
\* price of a matching row it left out.
C17_Witness ==
    \E c \in Conns :
        /\ Returned(c, "search_flights")
        /\ result[c] = Ok
        /\ call[c].has_max_price
        /\ \E i \in DOMAIN local[c].flights :
             /\ local[c].flights[i].pricing.dynamic_price > call[c].max_price
             /\ local[c].flights[i].pricing.final_price <= call[c].max_price
        /\ \E s \in Matching(c) : FinalPrice(c, s) > call[c].max_price

\* C18: search_flights returns its offers in ascending order of computed
\* price: in every result list, corporate searches across airlines with
\* different corporate discount percentages included, the
\* pricing.final_price values of consecutive offers are non-decreasing.
C18_AscendingFinalPrice ==
    \A c \in Conns :
        (Returned(c, "search_flights") /\ result[c] = Ok) =>
            \A i \in DOMAIN local[c].flights :
                i + 1 \in DOMAIN local[c].flights =>
                    local[c].flights[i].pricing.final_price
                        <= local[c].flights[i + 1].pricing.final_price

\* C19: the read-only operations (search_flights, get_flight_details,
\* check_seat_availability, get_booking_details, list_bookings_by_email,
\* calculate_flight_cost, get_airlines, get_airports,
\* get_baggage_allowance, get_route_options) leave passengers, bookings
\* and inventory unchanged, whether they succeed or fail.
C19_ReadOnlyUnchanged ==
    \A c \in Conns :
        call[c].tool \in ReadOnlyTools =>
            /\ Tables = pre
            /\ tx[c] = NoTx
            /\ passengers_seq = Cardinality(pre.passengers)

\* A lookup has failed after an earlier read-only call completed, on a
\* database with bookings and seats.
C19_Witness ==
    \E c \in Conns :
        /\ pc[c] = "return"
        /\ call[c].tool \in ReadOnlyTools
        /\ result[c] \in NotFoundErrors
        /\ calls >= 2
        /\ pre.flight_bookings /= {}
        /\ \E s \in DOMAIN pre.flight_inventory : pre.flight_inventory[s] > 0

\* ---------------------------------------------------------------------
\* The order of the checks of create_flight_booking (SeqSpec).

\* C20: create_flight_booking checks in a fixed order: a missing flight
\* is reported as flight-not-found even when no inventory exists either;
\* only for an existing flight is a missing (flight, date, cabin) slot
\* reported as inventory-not-found; only for an existing slot with
\* available_seats < 1 is the seat-unavailable error reported, and a slot
\* with available_seats >= 1 never produces it in a call that runs alone.
C20_CreateCheckOrder ==
    \A c \in Conns :
        Returned(c, "create_flight_booking") =>
            LET exists == call[c].flight_id \in DOMAIN flights
                has_slot == CallSlot(c) \in DOMAIN pre.flight_inventory
            IN  /\ ~exists => result[c] \in {FlightNotFound, DatabaseError}
                /\ result[c] = FlightNotFound => ~exists
                /\ (exists /\ ~has_slot) => result[c] \in {NoInventory, DatabaseError}
                /\ result[c] = NoInventory => exists /\ ~has_slot
                /\ (exists /\ has_slot /\ pre.flight_inventory[CallSlot(c)] < 1)
                      => result[c] \in {NoSeats, DatabaseError}
                /\ result[c] = NoSeats =>
                      exists /\ has_slot /\ pre.flight_inventory[CallSlot(c)] < 1
                /\ (has_slot /\ pre.flight_inventory[CallSlot(c)] >= 1)
                      => result[c] /= NoSeats

\* A booking on a flight that does not exist, and so has no inventory
\* either, was answered with flight-not-found.
C20_Witness ==
    \E c \in Conns :
        /\ Returned(c, "create_flight_booking")
        /\ call[c].flight_id \notin DOMAIN flights
        /\ CallSlot(c) \notin DOMAIN pre.flight_inventory
        /\ result[c] = FlightNotFound

\* ---------------------------------------------------------------------
\* The order of the checks of cancel_flight_booking (SeqSpec).

\* C21: cancel_flight_booking checks in a fixed order and reports the
\* first failing check: an unknown email gives passenger-not-found (also
\* when the reference is unknown too), then an unknown reference gives
\* booking-not-found, then a booking owned by another passenger gives
\* Unauthorized (also when that booking is already cancelled), then
\* status 'cancelled' gives already-cancelled; the state is unchanged in
\* all four cases.
C21_CancelCheckOrder ==
    \A c \in Conns :
        Returned(c, "cancel_flight_booking") =>
            LET known == Resolves(c)
                found == CancelTarget(c) /= {}
                owned == \E b \in CancelTarget(c) : ResolvesTo(c, b.passenger_id)
                cancelled == \E b \in CancelTarget(c) : b.booking_status = "cancelled"
            IN  /\ ~known => result[c] \in {PassengerNotFound, DatabaseError}
                /\ (known /\ ~found) => result[c] \in {BookingNotFound, DatabaseError}
                /\ (known /\ found /\ ~owned)
                      => result[c] \in {Unauthorized, DatabaseError}
                /\ (known /\ found /\ owned /\ cancelled)
                      => result[c] \in {AlreadyCancelled, DatabaseError}
                /\ result[c] = PassengerNotFound => ~known
                /\ result[c] = BookingNotFound => known /\ ~found
                /\ result[c] = Unauthorized => known /\ found /\ ~owned
                /\ result[c] = AlreadyCancelled => known /\ found /\ owned /\ cancelled
                /\ result[c] \in { PassengerNotFound, BookingNotFound,
                                   Unauthorized, AlreadyCancelled }
                      => Tables = pre

\* A passenger who does not own it asked to cancel a booking that its
\* owner had cancelled already, and was told Unauthorized.
C21_Witness ==
    \E c \in Conns : \E b \in CancelTarget(c) :
        /\ Returned(c, "cancel_flight_booking")
        /\ Resolves(c)
        /\ ~ResolvesTo(c, b.passenger_id)
        /\ b.booking_status = "cancelled"
        /\ result[c] = Unauthorized

\* ---------------------------------------------------------------------
\* The reported prices taken together (PriceSpec).

\* C22: in the record returned by calculate_flight_price, where each
\* monetary field is rounded to 2 decimal places, the reported fields
\* satisfy final_price = dynamic_price - discount_amount exactly (on the
\* rounded values, in cents) for every base_price >= 0, multiplier > 0
\* and discount in [0,100].
C22_ReportedPricesAddUp ==
    \A c \in Conns :
        ( pc[c] = "return" /\ call[c].tool = "calculate_flight_price" )
        => local[c].final_price
              = local[c].dynamic_price - local[c].corporate_discount_amount

\* ---------------------------------------------------------------------
\* Concurrent cancellations (Spec).

\* The call on c commits a cancellation and returns its confirmation.
CancelSucceeds(c) ==
    /\ call[c].tool = "cancel_flight_booking"
    /\ pc[c] = "cancel_commit"
    /\ pc'[c] = "return"
    /\ result'[c] = Ok

\* C23: when two cancel_flight_booking calls for the same confirmed
\* booking run concurrently as separate transactions, available_seats is
\* incremented exactly once in total: one call succeeds and the other
\* fails with already-cancelled.  So a call that commits its cancellation
\* (and with it one more seat) commits it on a booking that no other call
\* has cancelled.
C23_CancelledOnce ==
    [][ \A c \in Conns :
          CancelSucceeds(c) =>
              \A b \in BookingsByReference(call[c].booking_reference) :
                  ~IsCancelled(b) ]_vars

\* ---------------------------------------------------------------------
\* The name of a new passenger (NameSpec): one application of the
\* splitting in create_flight_booking to a name drawn from short strings.
\* A string is the sequence of its characters.

\* The characters of a name: two letters, the space and the tab.
Chars == {"A", "b", " ", "\t"}

\* What str.strip() and str.split() treat as whitespace.
Whitespace == {" ", "\t"}

Names == UNION { [1..n -> Chars] : n \in 0..MaxName }

\* s[i..], the characters of s from position i on.
From(s, i) == SubSeq(s, i, Len(s))

\* The positions of s that are not whitespace.
Inked(s) == { i \in DOMAIN s : s[i] \notin Whitespace }

Least(S) == CHOOSE i \in S : \A j \in S : i <= j

Greatest(S) == CHOOSE i \in S : \A j \in S : j <= i

\* str.strip(): without the whitespace at either end.
strip(s) == IF Inked(s) = {} THEN << >> ELSE SubSeq(s, Least(Inked(s)), Greatest(Inked(s)))

\* str.split(sep, 1): s cut at the first sep, or s alone when it has none.
split_1(s, sep) ==
    LET at == { i \in DOMAIN s : s[i] = sep }
    IN  IF at = {} THEN << s >>
        ELSE << SubSeq(s, 1, Least(at) - 1), From(s, Least(at) + 1) >>

NameArgs(name) == [ tool |-> "create_flight_booking", passenger_name |-> name ]

NameInit ==
    /\ passengers = {}
    /\ passengers_seq = 0
    /\ flight_inventory = [s \in Slots |-> 0]
    /\ flight_bookings = {}
    /\ pc = [c \in Conns |-> IF c = "c1" THEN "create_split_name" ELSE "idle"]
    /\ \E name \in Names :
         call = [c \in Conns |-> IF c = "c1" THEN NameArgs(name) ELSE NoCall]
    /\ local = [c \in Conns |-> NoLocal]
    /\ tx = [c \in Conns |-> NoTx]
    /\ result = [c \in Conns |-> None]
    /\ open = {}
    /\ calls = 0
    /\ seats0 = flight_inventory
    /\ pre = Tables
    /\ booked = NotBooked

\* name_parts = passenger_name.strip().split(' ', 1); first_name =
\* name_parts[0]; last_name = name_parts[1] if len(name_parts) > 1 else ""
SplitName(c) ==
    /\ pc[c] = "create_split_name"
    /\ LET name_parts == split_1(strip(call[c].passenger_name), " ")
       IN  local' = [local EXCEPT ![c] =
                        [ first_name |-> name_parts[1],
                          last_name |-> IF Len(name_parts) > 1 THEN name_parts[2]
                                                                ELSE << >> ]]
    /\ result' = [result EXCEPT ![c] = Ok]
    /\ pc' = [pc EXCEPT ![c] = "return"]
    /\ UNCHANGED << tables, passengers_seq, call, tx, open, calls, seats0, pre, booked >>

NameNext == \E c \in Conns : SplitName(c)

NameSpec == NameInit /\ [][NameNext]_vars

\* The first whitespace-separated token of a name (none: the empty string).
FirstToken(s) ==
    LET t == strip(s)
        gaps == { i \in DOMAIN t : t[i] \in Whitespace }
    IN  IF gaps = {} THEN t ELSE SubSeq(t, 1, Least(gaps) - 1)

\* What follows the first token, without the whitespace around it.
Remainder(s) == strip(From(strip(s), Len(FirstToken(s)) + 1))

\* C24: when create_flight_booking creates a new passenger, the stored
\* first name is the first whitespace-separated token of the provided
\* name and the stored last name is the remainder of the name after that
\* token, or the empty string when the name has a single token; also for
\* names with leading or trailing spaces and with several consecutive
\* spaces between tokens.
C24_NameSplit ==
    \A c \in Conns :
        pc[c] = "return" =>
            /\ local[c].first_name = FirstToken(call[c].passenger_name)
            /\ local[c].last_name = Remainder(call[c].passenger_name)

\* ---------------------------------------------------------------------
\* Passengers under concurrent calls (Spec).

\* C25: in every reachable state no two passenger rows have emails that
\* are equal ignoring letter case, for any sequence and any interleaving
\* of concurrent create_flight_booking calls (two concurrent first
\* bookings whose emails differ only in case included).
C25_OnePassengerPerEmail ==
    \A p \in passengers : \A q \in passengers :
        LOWER(p.email) = LOWER(q.email) => p = q

\* ---------------------------------------------------------------------
\* The life of a booking (Spec).

\* C26: booking status is monotone under the service's operations:
\* bookings are never deleted, a booking created by create_flight_booking
\* starts as 'confirmed', the only status change is to 'cancelled', a
\* booking that is 'cancelled' stays 'cancelled' in every later state,
\* and no operation changes any other field of an existing booking.
C26_StatusMonotone ==
    [][ /\ \A b \in flight_bookings :
             \/ b \in flight_bookings'
             \/ /\ b.booking_status /= "cancelled"
                /\ [b EXCEPT !.booking_status = "cancelled"] \in flight_bookings'
                /\ \A a \in flight_bookings' :
                       a.booking_reference = b.booking_reference
                           => a = [b EXCEPT !.booking_status = "cancelled"]
        /\ \A a \in flight_bookings' :
             (\A b \in flight_bookings : b.booking_reference /= a.booking_reference)
                 => a.booking_status = "confirmed" ]_vars

\* A booking has been made and cancelled and another one made and kept.
C26_Witness ==
    /\ \E b \in flight_bookings : b.booking_status = "cancelled"
    /\ \E b \in flight_bookings : b.booking_status = "confirmed"

\* ---------------------------------------------------------------------
\* Cancelling a seeded booking (SeededSpec): the database holds one
\* booking written by add_more_bookings, of any of its three statuses,
\* and cancel_flight_booking is called, one call at a time.

\* round(Decimal, 2) of an amount v given in millionths of a dollar: to
\* the nearest cent, a half to the even cent.
round_half_even(v) ==
    LET q == v \div 10000
        r == v % 10000
    IN  IF r < 5000 THEN q
        ELSE IF r > 5000 THEN q + 1
        ELSE IF q % 2 = 0 THEN q ELSE q + 1

\* f"GEN-{booking_counter + len(new_bookings):06d}" for the first booking.
SeededReference == "GEN-000001"

\* The statuses add_more_bookings draws from.
SeededStatuses == {"confirmed", "completed", "cancelled"}

\* The row add_more_bookings appends for passenger p on inventory row s.
SeededBooking(p, s, status) ==
    LET ticket_price == base_price(s) * price_multiplier(s) * 100
        discount ==
            IF p.is_corporate /\ flights[s.flight_id].corporate_discount_percent > 0
            THEN base_price(s) * price_multiplier(s)
                     * flights[s.flight_id].corporate_discount_percent
            ELSE 0
    IN  BookingRow(SeededReference, p.passenger_id, s.flight_id, s.flight_date,
                   s.cabin_class, "12A", round_half_even(ticket_price - discount),
                   round_half_even(discount), status)

SeededInit ==
    /\ passengers = {Ann}
    /\ passengers_seq = 1
    /\ flight_inventory \in [Slots -> 0..MaxSeats]
    /\ \E status \in SeededStatuses :
         flight_bookings = { SeededBooking(Ann, SlotA, status) }
    /\ pc = [c \in Conns |-> "idle"]
    /\ call = [c \in Conns |-> NoCall]
    /\ local = [c \in Conns |-> NoLocal]
    /\ tx = [c \in Conns |-> NoTx]
    /\ result = [c \in Conns |-> None]
    /\ open = {}
    /\ calls = 0
    /\ seats0 = flight_inventory
    /\ pre = Tables
    /\ booked = NotBooked

\* cancel_flight_booking is called for the seeded booking or for a
\* reference no booking has, when no other call is running.
SeededCall(c) ==
    /\ c = "c1"
    /\ \A o \in Conns : pc[o] = "idle"
    /\ \E ref \in {SeededReference, "GEN-000002"}, email \in Emails :
         Connect(c, CancelArgs(ref, email), "cancel_select_passenger")

\* The statements of cancel_flight_booking.
SeededStep(c) ==
    \/ CancelSelectPassenger(c)
    \/ CancelSelectBooking(c)
    \/ CancelUpdateBooking(c)
    \/ CancelUpdateInventory(c)
    \/ CancelCommit(c)
    \/ StatementFails(c)

SeededNext == \E c \in Conns : SeededCall(c) \/ SeededStep(c) \/ SeqReturn(c)

SeededSpec == SeededInit /\ [][SeededNext]_vars

\* C27: cancel_flight_booking rejects only bookings whose status is
\* 'cancelled': called with the owner's email on a booking whose status
\* is 'completed' it succeeds, sets the status to 'cancelled' and
\* increments the slot's available_seats by 1, exactly as for a
\* 'confirmed' booking.
C27_CompletedIsCancellable ==
    \A c \in Conns : \A b \in CancelTarget(c) :
        ( Returned(c, "cancel_flight_booking") /\ ResolvesTo(c, b.passenger_id) ) =>
            /\ result[c] = AlreadyCancelled => b.booking_status = "cancelled"
            /\ b.booking_status \in {"completed", "confirmed"} =>
                 /\ result[c] \in {Ok, DatabaseError}
                 /\ result[c] = Ok =>
                      /\ flight_bookings =
                             (pre.flight_bookings \ {b})
                                 \cup { [b EXCEPT !.booking_status = "cancelled"] }
                      /\ flight_inventory =
                             [pre.flight_inventory EXCEPT ![SlotOf(b)] = @ + 1]
                 /\ result[c] = DatabaseError => Tables = pre

\* The owner has cancelled a completed booking.
C27_Witness ==
    \E c \in Conns : \E b \in CancelTarget(c) :
        /\ Returned(c, "cancel_flight_booking")
        /\ ResolvesTo(c, b.passenger_id)
        /\ b.booking_status = "completed"
        /\ result[c] = Ok
        /\ \A a \in flight_bookings : a.booking_status = "cancelled"

\* ---------------------------------------------------------------------
\* Booking, cancelling and looking up, one call at a time (RoundTripSpec).
\* booked keeps the confirmation of the last successful
\* create_flight_booking, and whether that booking was cancelled since.

\* What create_flight_booking returns: the reference, and in its details
\* the email, the flight, date, cabin, seat and ticket price.
Confirmation(c) ==
    [ flight_inventory |-> pre.flight_inventory,
      booking_reference |-> local[c].booking_ref,
      passenger_email |-> call[c].passenger_email,
      flight_id |-> call[c].flight_id,
      travel_date |-> call[c].travel_date,
      cabin_class |-> call[c].cabin_class,
      seat_number |-> local[c].seat_number,
      ticket_price |-> CreatePricing(c).final_price,
      cancelled |-> FALSE ]

\* A tool is called when no other call is running.
RoundTripCall(c) ==
    /\ c = "c1"
    /\ \A o \in Conns : pc[o] = "idle"
    /\ \/ \E slot \in Slots, email \in Emails, corporate \in BOOLEAN :
            Connect(c, CreateArgs(slot, email, corporate), "create_select_passenger")
       \/ CancelCall(c)
       \/ GetBookingDetailsCall(c)
       \/ \E email \in Emails, include_past \in BOOLEAN :
            Connect(c, ListArgs(email, None, include_past), "list_bookings_by_email")

\* The statements of the two lookups.
RoundTripLookup(c) ==
    \/ GetBookingDetails(c)
    \/ ListBookingsByEmail(c)
    \/ ReadFails(c)

\* The caller has the outcome, and keeps a confirmation received.
RoundTripReturn(c) ==
    /\ Return(c)
    /\ pre' = Tables
    /\ booked' =
           IF call[c].tool = "create_flight_booking" /\ result[c] = Ok
           THEN Confirmation(c)
           ELSE IF /\ call[c].tool = "cancel_flight_booking"
                   /\ result[c] = Ok
                   /\ call[c].booking_reference = booked.booking_reference
           THEN [booked EXCEPT !.cancelled = TRUE]
           ELSE booked

RoundTripNext ==
    \E c \in Conns :
        RoundTripCall(c) \/ Step(c) \/ RoundTripLookup(c) \/ RoundTripReturn(c)

RoundTripSpec == Init /\ [][RoundTripNext]_vars

\* The status the booking of the kept confirmation has by now.
Expected == IF booked.cancelled THEN "cancelled" ELSE "confirmed"

\* C28: round trip: after create_flight_booking succeeds with reference r
\* for email e, get_booking_details(r) succeeds and reports status
\* 'confirmed' and the flight, date, cabin, seat and ticket price of the
\* confirmation, and list_bookings_by_email(e', include_past = true)
\* contains r for every e' equal to e ignoring case; after a subsequent
\* successful cancel both report status 'cancelled'.
C28_RoundTrip ==
    \A c \in Conns :
        ( /\ pc[c] = "return"
          /\ booked.booking_reference /= None
          /\ result[c] /= DatabaseError ) =>
            /\ ( /\ call[c].tool = "get_booking_details"
                 /\ call[c].booking_reference = booked.booking_reference )
               => /\ result[c] = Ok
                  /\ local[c].booking_status = Expected
                  /\ local[c].flight_id = booked.flight_id
                  /\ local[c].flight_date = booked.travel_date
                  /\ local[c].cabin_class = booked.cabin_class
                  /\ local[c].seat_number = booked.seat_number
                  /\ local[c].ticket_price = booked.ticket_price
            /\ ( /\ call[c].tool = "list_bookings_by_email"
                 /\ LOWER(call[c].passenger_email) = LOWER(booked.passenger_email)
                 /\ call[c].include_past )
               => /\ result[c] = Ok
                  /\ \E i \in DOMAIN local[c].bookings :
                       /\ local[c].bookings[i].booking_reference
                              = booked.booking_reference
                       /\ local[c].bookings[i].booking_status = Expected

\* After a booking and its cancellation, the listing for the same address
\* in another letter case shows the booking as cancelled.
C28_Witness ==
    \E c \in Conns :
        /\ Returned(c, "list_bookings_by_email")
        /\ result[c] = Ok
        /\ booked.booking_reference /= None
        /\ booked.cancelled
        /\ call[c].passenger_email /= booked.passenger_email
        /\ LOWER(call[c].passenger_email) = LOWER(booked.passenger_email)
        /\ \E i \in DOMAIN local[c].bookings :
             /\ local[c].bookings[i].booking_reference = booked.booking_reference
             /\ local[c].bookings[i].booking_status = "cancelled"

\* ---------------------------------------------------------------------
\* Booking references under concurrent calls (Spec).

\* The statement of the call on c that inserts the booking has run.
InsertDone(c) ==
    pc[c] = "create_insert_booking" /\ pc'[c] /= "create_insert_booking"

\* C29: no two booking rows ever share a booking_reference: when
\* create_flight_booking generates a reference equal to that of an
\* existing booking the insert is rejected, the whole call is rolled back
\* (no booking, no new passenger, no inventory decrement) and the error
\* is raised; the service does not retry with a fresh reference.
C29_UniqueReference ==
    /\ [](\A a \in flight_bookings : \A b \in flight_bookings :
              a.booking_reference = b.booking_reference => a = b)
    /\ [][ \A c \in Conns :
             InsertDone(c) =>
                 IF pc'[c] = "return"
                 THEN /\ result'[c] = DatabaseError
                      /\ tables' = tables
                      /\ tx'[c] = NoTx
                 ELSE /\ pc'[c] = "create_update_inventory"
                      /\ \A b \in tx'[c].ins_bookings : \A a \in flight_bookings :
                             a.booking_reference /= b.booking_reference ]_vars

\* A first booking for a new address, on a slot with a seat and while
\* another booking exists, has ended in the database's error with the
\* passenger it had inserted rolled back.
C29_Witness ==
    \E c \in Conns :
        /\ Returned(c, "create_flight_booking")
        /\ result[c] = DatabaseError
        /\ PassengersByEmail(call[c].passenger_email) = {}
        /\ passengers_seq > Cardinality(passengers)
        /\ flight_inventory[CallSlot(c)] >= 1
        /\ \E stamp \in Stamps :
             ReferenceTaken(generate_booking_reference(
                                flights[call[c].flight_id].airline_code, stamp))

\* ---------------------------------------------------------------------
\* The seed routine add_more_bookings (SeedSpec, and SeedFairSpec for
\* its termination).  It runs on connection c1; local[c] holds its list
\* new_bookings and what the current iteration drew.

SeedArgs(n) == [ tool |-> "add_more_bookings", num_bookings |-> n ]

\* cabin_classes, the two that inventory rows of the model have.
cabin_classes == {"economy", "business"}

\* datetime.date.today() + timedelta(days=random.randint(1, 89))
SeedDates == {"2025-06-01", "2025-06-02"}

\* f"GEN-{booking_counter + len(new_bookings):06d}", the table being empty.
SeedReference(new_bookings) ==
    IF Len(new_bookings) = 0 THEN SeededReference
    ELSE IF Len(new_bookings) = 1 THEN "GEN-000002"
    ELSE IF Len(new_bookings) = 2 THEN "GEN-000003" ELSE "GEN-000004"

\* Passengers and flights are fetched; the loop is about to start.
SeedInit ==
    /\ passengers \in ReadPassengers
    /\ passengers_seq = Cardinality(passengers)
    /\ flight_inventory \in [Slots -> 0..MaxSeats]
    /\ flight_bookings = {}
    /\ pc = [c \in Conns |-> IF c = "c1" THEN "seed_while" ELSE "idle"]
    /\ \E n \in 1..MaxBookings :
         call = [c \in Conns |-> IF c = "c1" THEN SeedArgs(n) ELSE NoCall]
    /\ local = [c \in Conns |-> IF c = "c1"
                                THEN [new_bookings |-> << >>, passenger |-> Ann,
                                      slot |-> SlotA]
                                ELSE NoLocal]
    /\ tx = [c \in Conns |-> NoTx]
    /\ result = [c \in Conns |-> None]
    /\ open = {"c1"}
    /\ calls = 0
    /\ seats0 = flight_inventory
    /\ pre = Tables
    /\ booked = NotBooked

\* while len(new_bookings) < num_bookings: passenger, flight, flight_date
\* and cabin_class are drawn at random.
SeedDraw(c) ==
    /\ pc[c] = "seed_while"
    /\ Len(local[c].new_bookings) < call[c].num_bookings
    /\ \E p \in passengers, f \in DOMAIN flights, d \in SeedDates, k \in cabin_classes :
         local' = [local EXCEPT ![c].passenger = p, ![c].slot = Slot(f, d, k)]
    /\ pc' = [pc EXCEPT ![c] = "seed_select"]
    /\ UNCHANGED << tables, passengers_seq, call, tx, result, open, calls, seats0, pre, booked >>

\* SELECT ... FROM flight_inventory WHERE flight_id = %s AND flight_date = %s
\*   AND cabin_class = %s AND available_seats > 0
SeedSeatRows(slot) ==
    { s \in DOMAIN flight_inventory : s = slot /\ flight_inventory[s] > 0 }

\* if seat_info: new_bookings.append(...), with a status drawn at random.
SeedAppend(c) ==
    /\ pc[c] = "seed_select"
    /\ SeedSeatRows(local[c].slot) /= {}
    /\ \E status \in SeededStatuses :
         local' = [local EXCEPT ![c].new_bookings =
                      Append(@, [ SeededBooking(local[c].passenger, local[c].slot, status)
                                    EXCEPT !.booking_reference = SeedReference(@) ])]
    /\ pc' = [pc EXCEPT ![c] = "seed_while"]
    /\ UNCHANGED << tables, passengers_seq, call, tx, result, open, calls, seats0, pre, booked >>

\* seat_info is None: nothing is appended, and the loop goes round.
SeedSkip(c) ==
    /\ pc[c] = "seed_select"
    /\ SeedSeatRows(local[c].slot) = {}
    /\ pc' = [pc EXCEPT ![c] = "seed_while"]
    /\ UNCHANGED << tables, passengers_seq, call, local, tx, result, open, calls, seats0, pre, booked >>

CouldNotGenerate == "Could not generate any new bookings. Check inventory."

\* After the loop: if new_bookings: INSERT them and commit, else report
\* that none could be generated; finally the connection is closed.
SeedInsert(c) ==
    /\ pc[c] = "seed_while"
    /\ Len(local[c].new_bookings) >= call[c].num_bookings
    /\ flight_bookings' =
           flight_bookings
               \cup { local[c].new_bookings[i] : i \in DOMAIN local[c].new_bookings }
    /\ Close(c, IF local[c].new_bookings /= << >> THEN Ok ELSE CouldNotGenerate)
    /\ UNCHANGED << passengers, flight_inventory, passengers_seq, call, local, tx,
                    calls, seats0, pre, booked >>

\* except psycopg2.Error: the error is printed, conn.rollback(), and the
\* connection is closed.
SeedFails(c) ==
    /\ pc[c] \in {"seed_while", "seed_select"}
    /\ Close(c, DatabaseError)
    /\ UNCHANGED << tables, passengers_seq, call, local, tx, calls, seats0, pre, booked >>

SeedNext ==
    \E c \in Conns :
        SeedDraw(c) \/ SeedAppend(c) \/ SeedSkip(c) \/ SeedInsert(c) \/ SeedFails(c)

SeedSpec == SeedInit /\ [][SeedNext]_vars

\* The iteration draws a row that has a seat.
SeedDrawsSeat(c) == SeedDraw(c) /\ SeedSeatRows(local'[c].slot) /= {}

\* The routine keeps running, and random draws that can hit a row with a
\* seat again and again do hit one.
SeedFairSpec ==
    /\ SeedSpec
    /\ WF_vars(SeedNext)
    /\ SF_vars(\E c \in Conns : SeedDrawsSeat(c))

\* C30: add_more_bookings(num_bookings > 0) always terminates: also when
\* passengers and flights exist but no inventory slot in the sampled date
\* range has available_seats > 0, its generation loop stops and it
\* reports that no bookings could be generated.
C30_SeedTerminates == <>(pc["c1"] = "return")


====
